---------------------------- MODULE Spec2Model ----------------------------
(***************************************************************************)
(* Dazzle match-3 board engine (game_core/board.rs) and the room layer     *)
(* that drives it (game_core/game.rs, game_core/room_manager.rs).          *)
(*                                                                         *)
(* A row mask (u32) is represented by the set of its set bit positions:    *)
(* a & b is the intersection, a | b the union, !a the complement in        *)
(* 0..31, a << n and a >> n move every position by n (positions leaving    *)
(* 0..31 are dropped, as the u32 shift drops them).                        *)
(*                                                                         *)
(* The board dimensions and the number of colours are those of config.rs   *)
(* scaled down (8 x 7 with 5 colours there); every loop of the engine is   *)
(* cut after MaxLoop iterations and the call is then recorded as one that  *)
(* has not returned.                                                       *)
(*                                                                         *)
(* rand::rngs::StdRng is a crate outside the repository.  It is modelled   *)
(* as a linear congruential generator: what the engine relies on is that   *)
(* the stream is a function of the seed alone.  rand::thread_rng() and     *)
(* Utc::now() are sources the caller does not control: every draw from     *)
(* them is a nondeterministic choice.                                      *)
(***************************************************************************)
EXTENDS Integers, Sequences, FiniteSets, TLC

\* ------------------------------------------------------------------ bounds
BOARD_WIDTH == 4
BOARD_HEIGHT == 3
BOARD_NUM_COLORS == 3
MaxSeed == 1
MaxOps == 2
MaxLoop == 6
MaxMoves == 1
NumPlayerChars == 2
MaxFillSeed == 39
MaxRounds == 3
StepWidth == 4
StepHeight == 4
MaxHp == 2
MaxRequests == 2

\* ------------------------------------------------------- program constants
MASK_OFFSET == 1
num_matches == 3

Seeds == 0..MaxSeed
Colors == 0..(BOARD_NUM_COLORS - 1)

\* ------------------------------------------------------------- u32 masks
Bits32 == 0..31
Shl(m, n) == {p + n : p \in m} \cap Bits32
Shr(m, n) == {p - n : p \in {q \in m : q >= n}}
Not(m) == Bits32 \ m
Bit(k) == {k} \cap Bits32

\* ------------------------------------------------------------------ StdRng
\* the generator state a seed is expanded to
seed_from_u64(seed) == (seed * 46693 + 1) % 65537
\* one step of the generator
RngNext(r) == (r * 75 + 74) % 65537
\* rng.gen_range(0..n), read off the state the draw has produced
gen_range(r, n) == r % n

RECURSIVE RngStates(_, _)
\* the n generator states that follow r, in order
RngStates(r, n) ==
    IF n = 0 THEN <<>>
    ELSE LET r1 == RngNext(r) IN <<r1>> \o RngStates(r1, n - 1)

\* ------------------------------------------------------------------- Board
NoBoard == [width |-> 0, height |-> 0, num_colors |-> 0,
            board |-> <<>>, remove_bead |-> <<>>,
            board_field_mask |-> {}, wall_mask |-> {}]

\* the struct literal of Board::new, before the first refresh
EmptyBoard(nc, w, h) ==
    [width |-> w, height |-> h, num_colors |-> nc,
     board |-> [c \in 0..(nc - 1) |-> [i \in 0..(2 * h - 1) |-> {}]],
     remove_bead |-> [c \in 0..(nc - 1) |-> 0],
     board_field_mask |-> Not(Shl(Bits32, w + MASK_OFFSET) \cup Bit(0)),
     wall_mask |-> Bit(w + MASK_OFFSET) \cup Bit(0)]

\* an explicit value of v: TLC keeps a function constructor unevaluated and
\* recomputes its body at every application; the comparison makes it tabulate
Eval(v) == IF v = v THEN v ELSE v

\* rows of b from starting_row up are zeroed in every colour and every cell
\* j of them gets the colour of the next draw; the draws go row by row,
\* column by column
refresh_reserved_block(b, starting_row, r) ==
    LET rows == 2 * b.height
        n == IF starting_row < rows THEN (rows - starting_row) * b.width ELSE 0
        st == RngStates(r, n)
    IN [b |-> [b EXCEPT !.board = Eval(
                 [c \in 0..(b.num_colors - 1) |->
                    [i \in 0..(rows - 1) |->
                       IF i < starting_row THEN b.board[c][i]
                       ELSE {j + MASK_OFFSET :
                               j \in {jj \in 0..(b.width - 1) :
                                        gen_range(st[(i - starting_row) * b.width + jj + 1],
                                                  b.num_colors) = c}}]])],
        r |-> IF n = 0 THEN r ELSE st[n]]

find_hollow_in_row(b, row_index) ==
    UNION {b.board[c][row_index] : c \in 0..(b.num_colors - 1)}

\* the body of the inner loop of shift_empty for one y
ShiftRow(b, y) ==
    LET next_index == y - 1
        next_row == Not(find_hollow_in_row(b, next_index))
    IN [b EXCEPT !.board = Eval(
          [c \in 0..(b.num_colors - 1) |->
             [b.board[c] EXCEPT
                ![next_index] = (next_row \cap b.board[c][y]) \cup b.board[c][next_index],
                ![y] = b.board[c][y] \ (next_row \cap b.board[c][y])]])]

\* a pass that lets the beads of row y fall by one row only
ShiftPass_OneRow(b, y) == IF y < 1 THEN b ELSE ShiftRow(b, y)

RECURSIVE ShiftPass(_, _)
\* for y in (1..=x).rev()
ShiftPass(b, y) == IF y < 1 THEN b ELSE ShiftPass(ShiftRow(b, y), y - 1)

RECURSIVE ShiftFrom(_, _)
\* for x in 1..height * 2
ShiftFrom(b, x) ==
    IF x >= b.height * 2 THEN b ELSE ShiftFrom(ShiftPass(b, x), x + 1)

shift_empty(b) == ShiftFrom(b, 1)

\* ComboState, without the display values the game fills in later
ComboState(color, amount) == [color |-> color, amount |-> amount]

RECURSIVE dfs_count_cluster(_, _, _, _)
\* st is the pair the code threads through the recursion: the pattern with
\* the visited bits removed and the amount counted so far
dfs_count_cluster(b, column_mask, row, st) ==
    IF row = b.height \/ column_mask \cap st.pattern[row] = {} THEN st
    ELSE LET visited == [pattern |-> [st.pattern EXCEPT ![row] = @ \ column_mask],
                         amount |-> st.amount + 1]
             left == dfs_count_cluster(b, Shl(column_mask, 1) \cap b.board_field_mask,
                                       row, visited)
             right == dfs_count_cluster(b, Shr(column_mask, 1) \cap b.board_field_mask,
                                        row, left)
             up == IF row >= 1 THEN dfs_count_cluster(b, column_mask, row - 1, right)
                   ELSE right
         IN dfs_count_cluster(b, column_mask, row + 1, up)

RECURSIVE ComboScan(_, _, _, _, _, _)
\* d is what dfs_count_cluster handed back for the cell (column, row)
ComboFound(b, color, column, row, d, combo_result) ==
    ComboScan(b, color, column, row + 1, d.pattern,
              Append(combo_result, ComboState(color, d.amount)))

\* the double loop of eval_combo_states from (column, row) on, columns outermost
ComboScan(b, color, column, row, clear_mask_pattern, combo_result) ==
    IF column >= b.width + MASK_OFFSET THEN combo_result
    ELSE IF row >= b.height
    THEN ComboScan(b, color, column + 1, 0, clear_mask_pattern, combo_result)
    ELSE IF Bit(column) \cap clear_mask_pattern[row] # {}
    THEN ComboFound(b, color, column, row,
                    dfs_count_cluster(b, Bit(column), row,
                                      [pattern |-> clear_mask_pattern, amount |-> 0]),
                    combo_result)
    ELSE ComboScan(b, color, column, row + 1, clear_mask_pattern, combo_result)

eval_combo_states(b, color, clear_mask_pattern) ==
    ComboScan(b, color, 0, 0, clear_mask_pattern, <<>>)

RECURSIVE ComboStatesFrom(_, _, _)
\* the colour loop of eval_clear_result from color_idx on: masks[c] is the
\* clear_mask of colour c, matched the colours whose bit is in colors_matched
ComboStatesFrom(b, masks, color_idx) ==
    IF color_idx >= b.num_colors THEN <<>>
    ELSE (IF masks[color_idx].matched
          THEN eval_combo_states(b, color_idx, masks[color_idx].clear_mask)
          ELSE <<>>)
         \o ComboStatesFrom(b, masks, color_idx + 1)

\* an evaluation that looks for horizontal runs only
eval_clear_result_NoVertical(b, need_combo_result) ==
    LET width == b.width - 2 + num_matches
        horiz(rows, row) ==
            {k \in 0..(width - 1) : \A i \in {0, 1, 2} : (i + k) \in rows[row]}
        clear_mask(rows, row) == UNION {Shl({0, 1, 2}, k) : k \in horiz(rows, row)}
    IN [some |-> \E c \in 0..(b.num_colors - 1), row \in 0..(b.height - 1) :
                    horiz(b.board[c], row) # {},
        mask |-> [row \in 0..(b.height - 1) |->
                    UNION {clear_mask(b.board[c], row) : c \in 0..(b.num_colors - 1)}],
        combo_states |-> <<>>]

\* Some((board_clear_mask, combo_states)) is [some |-> TRUE, mask |->
\* board_clear_mask, combo_states |-> combo_states], None is [some |-> FALSE, ...]
eval_clear_result(b, need_combo_result) ==
    LET horizontal_match_mask == {0, 1, 2}
        width == b.width - 2 + num_matches
        vertStarts == 0..(b.height - num_matches)
        vert(rows, s) == {p \in rows[s] : /\ p \in b.board_field_mask
                                          /\ p \in rows[s + 1]
                                          /\ p \in rows[s + 2]}
        horiz(rows, row) ==
            {k \in 0..(width - 1) :
                \A i \in horizontal_match_mask : (i + k) \in rows[row]}
        clear_mask(rows, row) ==
            UNION {vert(rows, s) : s \in {t \in vertStarts : t <= row /\ row <= t + 2}}
            \cup UNION {Shl(horizontal_match_mask, k) : k \in horiz(rows, row)}
        colors_matched(rows) ==
            \/ \E s \in vertStarts : vert(rows, s) # {}
            \/ \E row \in 0..(b.height - 1) : horiz(rows, row) # {}
        masks == [c \in 0..(b.num_colors - 1) |->
                    [matched |-> colors_matched(b.board[c]),
                     clear_mask |-> [row \in 0..(b.height - 1) |->
                                       clear_mask(b.board[c], row)]]]
    IN [some |-> \E c \in 0..(b.num_colors - 1) : colors_matched(b.board[c]),
        mask |-> [row \in 0..(b.height - 1) |->
                    UNION {clear_mask(b.board[c], row) : c \in 0..(b.num_colors - 1)}],
        combo_states |-> IF need_combo_result THEN ComboStatesFrom(b, masks, 0)
                         ELSE <<>>]

\* zeroes the masked bits of the playable rows and counts, per colour, the
\* removed beads of columns 0..width-1
apply_clear_mask(b, board_clear_mask) ==
    [b EXCEPT
       !.remove_bead =
          [c \in 0..(b.num_colors - 1) |->
             b.remove_bead[c]
             + Cardinality({<<y, p>> \in (0..(b.height - 1)) \X (1..b.width) :
                              p \in (b.board[c][y] \cap board_clear_mask[y])})],
       !.board = Eval(
          [c \in 0..(b.num_colors - 1) |->
             [i \in 0..(2 * b.height - 1) |->
                IF i < b.height THEN b.board[c][i] \ board_clear_mask[i]
                ELSE b.board[c][i]]])]

\* clear, drop, refill the reserved rows: the three calls that follow every
\* clear mask in Board::new, process_falling_and_filling_result and the skills
ClearShiftRefill(b, board_clear_mask, r) ==
    refresh_reserved_block(shift_empty(apply_clear_mask(b, board_clear_mask)),
                           b.height, r)

\* --------------------------------------------------------------- the swap
Directions == {"Up", "Down", "Left", "Right"}

\* Err(IllegalMove) is [ok |-> FALSE, ...]; Ok(()) carries the board after
\* the exchange of the two cells in every colour channel
do_bead_swap(b, mv) ==
    LET row_mask == Bit(mv.x + MASK_OFFSET)
        out_of_boundary ==
            \/ mv.direction = "Right" /\ mv.x >= BOARD_WIDTH - 1
            \/ mv.direction = "Left" /\ mv.x = 0
            \/ mv.direction = "Up" /\ mv.y >= BOARD_HEIGHT - 1
            \/ mv.direction = "Down" /\ mv.y = 0
        dest_mask == CASE mv.direction = "Right" -> Shl(row_mask, 1)
                       [] mv.direction = "Left" -> Shr(row_mask, 1)
                       [] OTHER -> row_mask
        dest_y == CASE mv.direction = "Up" -> mv.y + 1
                    [] mv.direction = "Down" -> mv.y - 1
                    [] OTHER -> mv.y
        both == row_mask \cup dest_mask
        horizontal(rows) ==
            [rows EXCEPT ![mv.y] =
                (rows[mv.y] \ both)
                \cup (IF mv.direction = "Left" THEN Shr(rows[mv.y] \cap row_mask, 1)
                      ELSE Shl(rows[mv.y] \cap row_mask, 1))
                \cup (IF mv.direction = "Left" THEN Shl(rows[mv.y] \cap dest_mask, 1)
                      ELSE Shr(rows[mv.y] \cap dest_mask, 1))]
        vertical(rows) ==
            [rows EXCEPT ![mv.y] = (rows[mv.y] \ both) \cup (rows[dest_y] \cap dest_mask),
                         ![dest_y] = (rows[dest_y] \ both) \cup (rows[mv.y] \cap row_mask)]
    IN IF out_of_boundary THEN [ok |-> FALSE, board |-> b]
       ELSE [ok |-> TRUE,
             board |-> [b EXCEPT !.board = Eval(
                          [c \in 0..(b.num_colors - 1) |->
                             IF dest_y = mv.y THEN horizontal(b.board[c])
                             ELSE vertical(b.board[c])])]]

\* one trial of has_no_moves on the swapped clone sw: "err" when the swap was
\* refused, "match" when the clone has something to clear, "none" otherwise
SwapTrial(sw) ==
    IF ~sw.ok THEN "err"
    ELSE IF eval_clear_result(sw.board, FALSE).some THEN "match"
    ELSE "none"

\* the swaps has_no_moves tries at cell (x, y), in its order
TrialsAt(b, x, y) ==
    (IF x < b.width - 1 THEN <<[x |-> x, y |-> y, direction |-> "Right"]>> ELSE <<>>)
    \o (IF y < b.height - 1 THEN <<[x |-> x, y |-> y, direction |-> "Up"]>> ELSE <<>>)

RECURSIVE TrialsFrom(_, _, _)
\* the double loop of has_no_moves from cell (x, y) on, x outermost
TrialsFrom(b, x, y) ==
    IF x >= b.width THEN <<>>
    ELSE IF y >= b.height THEN TrialsFrom(b, x + 1, 0)
    ELSE TrialsAt(b, x, y) \o TrialsFrom(b, x, y + 1)

RECURSIVE HasNoMovesFrom(_, _, _)
\* a refused swap returns true, a match returns false, the end of the loops true
TrialOutcome(t, b, trials, i) ==
    IF t = "err" THEN TRUE
    ELSE IF t = "match" THEN FALSE
    ELSE HasNoMovesFrom(b, trials, i + 1)

HasNoMovesFrom(b, trials, i) ==
    IF i > Len(trials) THEN TRUE
    ELSE TrialOutcome(SwapTrial(do_bead_swap(b, trials[i])), b, trials, i)

has_no_moves(b) == HasNoMovesFrom(b, TrialsFrom(b, 0, 0), 1)

\* ------------------------------------------------------------ BoardState
\* clear masks handed to callers are shifted right by MASK_OFFSET
ClearState(mask, combo_states) ==
    [kind |-> "ClearState",
     clear_mask |-> [row \in DOMAIN mask |-> Shr(mask[row], MASK_OFFSET)],
     combo_states |-> combo_states,
     board |-> NoBoard]
FillState(b) ==
    [kind |-> "FillState", clear_mask |-> <<>>, combo_states |-> <<>>, board |-> b]
RerollState(b) ==
    [kind |-> "RerollState", clear_mask |-> <<>>, combo_states |-> <<>>, board |-> b]
TurnTilesState(mask, b) ==
    [kind |-> "TurnTilesState", clear_mask |-> mask, combo_states |-> <<>>, board |-> b]

\* what a loop hands back: the board, the generator, the BoardStates pushed
\* so far, and whether the loop came to its end within MaxLoop rounds
Loop(b, r, states, done) == [b |-> b, r |-> r, states |-> states, done |-> done]

\* a cascade that never rerolls
RerollLoop_Skipped(b, r, states, fuel) == Loop(b, r, states, TRUE)

RECURSIVE RerollLoop(_, _, _, _)
\* one round of the reroll: f is the regenerated board and the generator
RerollRound(f, states, fuel) ==
    RerollLoop(f.b, f.r, Append(states, RerollState(f.b)), fuel - 1)

\* while self.has_no_moves() { refresh the whole board; push RerollState }
RerollLoop(b, r, states, fuel) ==
    IF ~has_no_moves(b) THEN Loop(b, r, states, TRUE)
    ELSE IF fuel = 0 THEN Loop(b, r, states, FALSE)
    ELSE RerollRound(refresh_reserved_block(b, 0, r), states, fuel)

\* a cascade that stops after its first round
CascadeNext_OneRound(rr, fuel) == rr

RECURSIVE CascadeLoop(_, _, _, _)
\* the end of one round of the cascade: rr is what the reroll loop handed back
CascadeNext(rr, fuel) ==
    IF ~rr.done THEN rr ELSE CascadeLoop(rr.b, rr.r, rr.states, fuel - 1)

\* a round that pushes its FillState before its ClearState
CascadeFill_FillFirst(f, e, states, fuel) ==
    CascadeNext(RerollLoop(f.b, f.r,
                           states \o <<FillState(f.b),
                                       ClearState(e.mask, e.combo_states)>>, MaxLoop),
                fuel)

\* one round of the cascade: f is the refilled board and the generator, e what
\* eval_clear_result found before the clear
CascadeFill(f, e, states, fuel) ==
    CascadeNext(RerollLoop(f.b, f.r,
                           states \o <<ClearState(e.mask, e.combo_states),
                                       FillState(f.b)>>, MaxLoop),
                fuel)

\* e is what eval_clear_result found on b
CascadeRound(e, b, r, states, fuel) ==
    IF ~e.some THEN Loop(b, r, states, TRUE)
    ELSE IF fuel = 0 THEN Loop(b, r, states, FALSE)
    ELSE CascadeFill(ClearShiftRefill(b, e.mask, r), e, states, fuel)

\* the loop of process_falling_and_filling_result
CascadeLoop(b, r, states, fuel) ==
    CascadeRound(eval_clear_result(b, TRUE), b, r, states, fuel)

process_falling_and_filling_result(b, r) == CascadeLoop(b, r, <<>>, MaxLoop)

\* --------------------------------------------------------------- Board::new
RECURSIVE NewClearLoop(_, _, _)
NewClearNext(f, fuel) == NewClearLoop(f.b, f.r, fuel - 1)

NewClearRound(e, b, r, fuel) ==
    IF ~e.some THEN Loop(b, r, <<>>, TRUE)
    ELSE IF fuel = 0 THEN Loop(b, r, <<>>, FALSE)
    ELSE NewClearNext(ClearShiftRefill(b, e.mask, r), fuel)

\* the first loop of Board::new: clear, drop and refill the reserved rows
\* until nothing matches
NewClearLoop(b, r, fuel) == NewClearRound(eval_clear_result(b, FALSE), b, r, fuel)

\* Board::new without its second loop
NewRerollLoop_Skipped(b, r, fuel) == Loop(b, r, <<>>, TRUE)

RECURSIVE NewRerollLoop(_, _, _)
NewRerollNext(f, fuel) == NewRerollLoop(f.b, f.r, fuel - 1)

\* the second loop of Board::new: regenerate every row while no swap matches
NewRerollLoop(b, r, fuel) ==
    IF ~has_no_moves(b) THEN Loop(b, r, <<>>, TRUE)
    ELSE IF fuel = 0 THEN Loop(b, r, <<>>, FALSE)
    ELSE NewRerollNext(refresh_reserved_block(b, 0, r), fuel)

NewAfterClear(c) == IF ~c.done THEN c ELSE NewRerollLoop(c.b, c.r, MaxLoop)

NewAfterFill(f) == NewAfterClear(NewClearLoop(f.b, f.r, MaxLoop))

Board_new(r, nc, w, h) ==
    NewAfterFill(refresh_reserved_block(EmptyBoard(nc, w, h), 0, r))

\* ----------------------------------------------------------------- simulate
\* what a call on the board hands back: Ok or the error ("NoReturn" when a
\* loop did not end), the board left in self, the generator, the BoardStates
Outcome(result, b, r, states) ==
    [result |-> result, board |-> b, r |-> r, states |-> states]

\* simulate without its length test: Ok whatever the cascade pushed
SimulateEnd_NoLengthTest(self, r, p) ==
    IF ~p.done THEN Outcome("NoReturn", self, r, <<>>)
    ELSE Outcome("Ok", [self EXCEPT !.board = p.b.board], p.r, p.states)

\* p is what process_falling_and_filling_result handed back on the clone;
\* the rows of the clone are stored in self before the length test
SimulateEnd(self, r, p) ==
    IF ~p.done THEN Outcome("NoReturn", self, r, <<>>)
    ELSE Outcome(IF Len(p.states) = 0 THEN "IllegalMove" ELSE "Ok",
                 [self EXCEPT !.board = p.b.board], p.r, p.states)

\* a simulate that keeps the counters of the board it is called on
SimulateSwapped_NoReset(self, r, sw) ==
    IF ~sw.ok THEN Outcome("IllegalMove", self, r, <<>>)
    ELSE SimulateEnd(self, r, process_falling_and_filling_result(sw.board, r))

\* sw is what do_bead_swap handed back on the clone
SimulateSwapped(self, r, sw) ==
    IF ~sw.ok THEN Outcome("IllegalMove", self, r, <<>>)
    ELSE SimulateEnd(self, r,
            process_falling_and_filling_result(
                [sw.board EXCEPT !.remove_bead = [c \in 0..(self.num_colors - 1) |-> 0]],
                r))

simulate(self, mv, r) == SimulateSwapped(self, r, do_bead_swap(self, mv))

\* ----------------------------------------------------------- special clears
has_valid_gem_target(b, target_gem) ==
    \E row \in 0..(b.height - 1) : b.board[target_gem][row] # {}

\* a colour conversion that leaves the source channel as it was
TurnedBoard_KeepSource(self, from_bead, to_bead) ==
    [self EXCEPT !.board =
       [self.board EXCEPT ![to_bead] =
          [i \in 0..(2 * self.height - 1) |->
             IF i < self.height
             THEN self.board[to_bead][i] \cup self.board[from_bead][i]
             ELSE self.board[to_bead][i]]]]

\* a colour conversion that goes over the reserved rows too
TurnedBoard_AllRows(self, from_bead, to_bead) ==
    [self EXCEPT !.board =
       [[self.board EXCEPT ![from_bead] = [i \in 0..(2 * self.height - 1) |-> {}]]
          EXCEPT ![to_bead] =
            [i \in 0..(2 * self.height - 1) |->
               self.board[to_bead][i] \cup self.board[from_bead][i]]]]

\* the board after the colour conversion: the two channel clones are merged
\* over the playable rows and written back, the source channel first
TurnedBoard(self, from_bead, to_bead) ==
    [self EXCEPT !.board =
       [[self.board EXCEPT ![from_bead] =
            [i \in 0..(2 * self.height - 1) |->
               IF i < self.height THEN {} ELSE self.board[from_bead][i]]]
          EXCEPT ![to_bead] =
            [i \in 0..(2 * self.height - 1) |->
               IF i < self.height
               THEN self.board[to_bead][i] \cup self.board[from_bead][i]
               ELSE self.board[to_bead][i]]]]

TurnTilesEnd(self, from_bead, after, r) ==
    Outcome("Ok", after, r,
            <<TurnTilesState([row \in 0..(self.height - 1) |->
                                Shr(self.board[from_bead][row], MASK_OFFSET)],
                             after)>>)

\* turn_tiles takes no generator: r is handed through to the Outcome unchanged
turn_tiles(self, from_bead, to_bead, r) ==
    IF ~has_valid_gem_target(self, from_bead)
    THEN Outcome("SkillNoGemToTrigger", self, r, <<>>)
    ELSE TurnTilesEnd(self, from_bead, TurnedBoard(self, from_bead, to_bead), r)

\* the combo states of a skill's ClearState: one default entry when the skill's
\* configuration gives its cleared beads no damage, otherwise one entry per
\* colour with the number of beads of that colour under the mask
eval_skill_combo_state(b, clear_mask, is_clear_bead_produce_damage) ==
    IF ~is_clear_bead_produce_damage THEN <<ComboState(0, 0)>>
    ELSE LET amount == [color \in 0..(BOARD_NUM_COLORS - 1) |->
                          Cardinality({<<idx, p>> \in (0..(BOARD_HEIGHT - 1)) \X Bits32 :
                                         p \in b.board[color][idx] \cap clear_mask[idx]})]
             entry(color) == IF amount[color] # 0
                             THEN <<ComboState(color, amount[color])>> ELSE <<>>
             RECURSIVE from(_)
             from(color) == IF color >= BOARD_NUM_COLORS THEN <<>>
                            ELSE entry(color) \o from(color + 1)
         IN from(0)

SkillEnd(self, r, board_clear_mask, combo_states, f, p) ==
    IF ~p.done THEN Outcome("NoReturn", self, r, <<>>)
    ELSE Outcome("Ok", [self EXCEPT !.board = p.b.board], p.r,
                 <<ClearState(board_clear_mask, combo_states), FillState(f.b)>>
                 \o p.states)

SkillFilled(self, r, board_clear_mask, combo_states, f) ==
    SkillEnd(self, r, board_clear_mask, combo_states, f,
             process_falling_and_filling_result(f.b, f.r))

\* what element_explosion and line_eleminate do once the mask is known: the
\* ClearState of the skill, clear, drop, refill, FillState, then the cascade
SkillClear(self, board_clear_mask, combo_states, r) ==
    SkillFilled(self, r, board_clear_mask, combo_states,
                ClearShiftRefill(self, board_clear_mask, r))

\* the literal 255 of the horizontal line is the set of bits 0..7
compose_line_mask(clear_pattern, line_num) ==
    [row \in 0..(BOARD_HEIGHT - 1) |->
        IF clear_pattern = "Horizontal"
        THEN (IF row = line_num THEN Shl(0..7, MASK_OFFSET) ELSE {})
        ELSE Bit(line_num + MASK_OFFSET)]

\* the mask of element_explosion: the playable rows of the target channel
ExplosionMask(self, target_bead) ==
    [row \in 0..(self.height - 1) |-> self.board[target_bead][row]]

\* produce_damage is SkillInfo::ElementalExplosion.is_clear_bead_produce_damage(),
\* read from the gameplay configuration
element_explosion(self, target_bead, produce_damage, r) ==
    IF \A row \in 0..(self.height - 1) : self.board[target_bead][row] = {}
    THEN Outcome("SkillNoGemToTrigger", self, r, <<>>)
    ELSE SkillClear(self, ExplosionMask(self, target_bead),
                    eval_skill_combo_state(self, ExplosionMask(self, target_bead),
                                           produce_damage),
                    r)

\* produce_damage is SkillInfo::LineEliminate.is_clear_bead_produce_damage()
line_eleminate(self, clear_pattern, line_num, produce_damage, r) ==
    SkillClear(self, compose_line_mask(clear_pattern, line_num),
               eval_skill_combo_state(self, compose_line_mask(clear_pattern, line_num),
                                      produce_damage),
               r)

\* ------------------------------------------------------------------- state
VARIABLES
    board,   \* the Board the caller holds (NoBoard before Board::new)
    rng,     \* the StdRng the caller holds
    last,    \* the last call: its name, arguments, the board it was made on, its result
    nops,    \* number of calls made on the board, of requests made to the room
    room,    \* the game of a room (NoGame before the room is created)
    replay,  \* the game of a second run that is given the same seeds and actions
    draws,   \* where the generators drawn from in room so far got their seed
    calc,    \* the damage evaluation of one attack: its inputs, the beads counted so far, the damage
    dapp     \* the managers of the rollup loop, and what the rollup server keeps of its inputs

bvars == <<board, rng, last, nops>>
xvars == <<calc, dapp>>
gvars == <<room, replay, draws, xvars>>
vars == <<board, rng, last, nops, room, replay, draws, xvars>>

\* an Option: None, or Some(v)
None == <<>>
Some(v) == <<v>>

NoGame == [states |-> <<>>, turn |-> 0, current_active_player_idx |-> 0,
           rng |-> 0, seeded_by |-> "nothing", game_mode |-> "none",
           game_over_result |-> None, gamers |-> 0]

\* no attack is being evaluated
NoCalc ==
    [started |-> FALSE, rate |-> [n |-> 0, d |-> 1], zone_buff_rate |-> 0,
     event |-> <<>>, base_damage |-> [n |-> 0, d |-> 1], gem_amount |-> <<>>,
     shown |-> <<>>]

\* the addresses of the senders and users of the rollup inputs
NumAddrs == 2
Addrs == 0..(NumAddrs - 1)

\* RoomManager::new(), BalanceManager::new() and IngameWalletManager::new() in
\* rollup: no user in a room, no balance, no voucher, no wallet; the rollup
\* server has kept no voucher and the Ether portal has taken no deposit
NoDapp ==
    [balance_map |-> [a \in Addrs |-> None], voucher_meta_map |-> [a \in Addrs |-> <<>>],
     wallet_map |-> [a \in Addrs |-> None], users |-> <<>>, vouchers |-> <<>>,
     deposited |-> 0]

NoMove == [x |-> 0, y |-> 0, direction |-> "Up"]
Call(op, mv, pre, result, states) ==
    [op |-> op, mv |-> mv, pre |-> pre, result |-> result, states |-> states]

Init ==
    /\ board = NoBoard
    /\ rng = seed_from_u64(0)
    /\ last = Call("none", NoMove, NoBoard, "Ok", <<>>)
    /\ nops = 0
    /\ room = NoGame
    /\ replay = NoGame
    /\ draws = {}
    /\ calc = NoCalc
    /\ dapp = NoDapp

\* n is what Board::new handed back
Built(n) ==
    /\ board' = IF n.done THEN n.b ELSE NoBoard
    /\ rng' = n.r
    /\ last' = Call("new", NoMove, NoBoard, IF n.done THEN "Ok" ELSE "NoReturn", <<>>)
    /\ UNCHANGED <<nops, gvars>>

\* let mut rng = StdRng::seed_from_u64(seed); Board::new(&mut rng, nc, w, h)
New(seed, w, h) ==
    /\ board = NoBoard
    /\ Built(Board_new(seed_from_u64(seed), BOARD_NUM_COLORS, w, h))

\* Game::update_rng
Reseed(seed) ==
    /\ board # NoBoard
    /\ nops < MaxOps
    /\ rng' = seed_from_u64(seed)
    /\ nops' = nops + 1
    /\ UNCHANGED <<board, last, gvars>>

\* the cells of the board, the moves check_legal_move lets through
Moves(b) == [x : 0..(b.width - 1), y : 0..(b.height - 1), direction : Directions]

\* the call op(mv) handed back s: the caller's board and generator are the
\* ones the call left; mv is the MoveAction of a simulate, the two elements of
\* a turn_tiles
Called(op, mv, s) ==
    /\ board' = s.board
    /\ rng' = s.r
    /\ last' = Call(op, mv, board, s.result, s.states)
    /\ nops' = nops + 1
    /\ UNCHANGED gvars

Simulate(mv) ==
    /\ board # NoBoard
    /\ nops < MaxOps
    /\ Called("simulate", mv, simulate(board, mv, rng))

TurnTiles(from_bead, to_bead) ==
    /\ board # NoBoard
    /\ nops < MaxOps
    /\ Called("turn_tiles", [from_elem |-> from_bead, to_elem |-> to_bead],
              turn_tiles(board, from_bead, to_bead, rng))

ElementExplosion(target_bead, produce_damage) ==
    /\ board # NoBoard
    /\ nops < MaxOps
    /\ Called("element_explosion", NoMove,
              element_explosion(board, target_bead, produce_damage, rng))

LineEliminate(clear_pattern, line_num, produce_damage) ==
    /\ board # NoBoard
    /\ nops < MaxOps
    /\ Called("line_eleminate", NoMove,
              line_eleminate(board, clear_pattern, line_num, produce_damage, rng))

BoardOps ==
    \/ \E seed \in Seeds : Reseed(seed)
    \/ \E mv \in Moves(board) : Simulate(mv)
    \/ \E from_bead \in Colors, to_bead \in Colors : TurnTiles(from_bead, to_bead)
    \/ \E target_bead \in Colors, produce_damage \in BOOLEAN :
          ElementExplosion(target_bead, produce_damage)
    \/ \E line_num \in 0..(BOARD_HEIGHT - 1), produce_damage \in BOOLEAN :
          LineEliminate("Horizontal", line_num, produce_damage)
    \/ \E line_num \in 0..(BOARD_WIDTH - 1), produce_damage \in BOOLEAN :
          LineEliminate("Vertical", line_num, produce_damage)

\* the board of a game: GameState::init builds it with the dimensions of config.rs
Next ==
    \/ \E seed \in Seeds : New(seed, BOARD_WIDTH, BOARD_HEIGHT)
    \/ BoardOps

Spec == Init /\ [][Next]_vars

\* Board::new is public and takes the dimensions from its caller (the unit
\* test builds a board smaller than config.rs's): the widths tried, the
\* height kept since eval_clear_result needs num_matches rows
Widths == {BOARD_WIDTH - 1, BOARD_WIDTH}

NextDims ==
    \/ \E seed \in Seeds, w \in Widths : New(seed, w, BOARD_HEIGHT)
    \/ BoardOps

SpecDims == Init /\ [][NextDims]_vars

\* ------------------------------------------------- the cascade step by step
\* One round of the loop of process_falling_and_filling_result, a call at a
\* time, on boards of StepWidth x StepHeight: last.op is the call just made,
\* last.pre the board it was made on, nops counts the rounds.
FillSeeds == 0..MaxFillSeed

\* f is what the first refresh_reserved_block of Board::new handed back
Filled(f) ==
    /\ board' = f.b
    /\ rng' = f.r
    /\ last' = Call("refresh_reserved_block", NoMove, NoBoard, "Ok", <<>>)
    /\ UNCHANGED <<nops, gvars>>

FillBoard(seed, nc) ==
    /\ board = NoBoard
    /\ Filled(refresh_reserved_block(EmptyBoard(nc, StepWidth, StepHeight), 0,
                                      seed_from_u64(seed)))

\* e is what eval_clear_result found on the board
Evaluated(e) ==
    /\ last' = Call("eval_clear_result", NoMove, board,
                    IF e.some THEN "Some" ELSE "None",
                    <<ClearState(e.mask, e.combo_states)>>)
    /\ UNCHANGED <<board, rng, nops, gvars>>

EvalClearResult ==
    /\ board # NoBoard
    /\ last.op = "refresh_reserved_block"
    /\ Evaluated(eval_clear_result(board, TRUE))

\* the mask is the one eval_clear_result returned
ApplyClearMask ==
    /\ last.op = "eval_clear_result" /\ last.result = "Some"
    /\ board' = apply_clear_mask(board, eval_clear_result(board, FALSE).mask)
    /\ last' = Call("apply_clear_mask", NoMove, board, "Ok", <<>>)
    /\ UNCHANGED <<rng, nops, gvars>>

\* the mask is the one element_explosion builds for target_bead
ApplyExplosionMask(target_bead) ==
    /\ board # NoBoard
    /\ last.op = "refresh_reserved_block"
    /\ target_bead < board.num_colors
    /\ board' = apply_clear_mask(board, ExplosionMask(board, target_bead))
    /\ last' = Call("apply_clear_mask", NoMove, board, "Ok", <<>>)
    /\ UNCHANGED <<rng, nops, gvars>>

ShiftEmpty ==
    /\ last.op = "apply_clear_mask"
    /\ board' = shift_empty(board)
    /\ last' = Call("shift_empty", NoMove, board, "Ok", <<>>)
    /\ UNCHANGED <<rng, nops, gvars>>

\* f is what refresh_reserved_block(height, rng) handed back
Refilled(f) ==
    /\ board' = f.b
    /\ rng' = f.r
    /\ last' = Call("refresh_reserved_block", NoMove, board, "Ok", <<>>)
    /\ nops' = nops + 1
    /\ UNCHANGED gvars

RefreshReserved ==
    /\ last.op = "shift_empty"
    /\ nops < MaxRounds
    /\ Refilled(refresh_reserved_block(board, board.height, rng))

NextSteps ==
    \/ \E seed \in FillSeeds, nc \in {BOARD_NUM_COLORS - 1, BOARD_NUM_COLORS} :
          FillBoard(seed, nc)
    \/ EvalClearResult
    \/ ApplyClearMask
    \/ \E target_bead \in Colors : ApplyExplosionMask(target_bead)
    \/ ShiftEmpty
    \/ RefreshReserved

SpecSteps == Init /\ [][NextSteps]_vars

\* ------------------------------------------------------------------ the room
\* gamers[0] is the player, with a party of NumPlayerChars characters;
\* gamers[1] is the enemy with one character in a PvE room, a second player
\* with a party of NumPlayerChars characters in a PvP room.  The id of a gamer
\* is its index.  Zone events and the passive skills are not tracked.
PlayerChars == [i \in 1..NumPlayerChars |-> i]
EnemyChars == <<NumPlayerChars + 1>>
RivalChars == [i \in 1..NumPlayerChars |-> NumPlayerChars + i]
CharIds == 1..(2 * NumPlayerChars)
GameModes == {"PvE", "PvP"}

\* the values Utc::now().timestamp() may have
Clock == Seeds

Min(a, b) == IF a <= b THEN a ELSE b
Max(a, b) == IF a >= b THEN a ELSE b

\* the attributes of a character come with the request that creates the room:
\* the characters of odd id have max_hp MaxHp, those of even id MaxHp - 1; the
\* skills are Damage, Recovery, DefenseAmplify and ShieldAbsorb in turn
get_max_hp(id) == IF id % 2 = 1 THEN MaxHp ELSE MaxHp - 1
get_skill_info(id) ==
    IF id % 4 = 1 THEN "Damage" ELSE IF id % 4 = 2 THEN "Recovery"
    ELSE IF id % 4 = 3 THEN "DefenseAmplify" ELSE "ShieldAbsorb"

\* the unit of the rates of the config
RATE_UNIT == 1000

\* the SkillParam of the skill_param_table for each skill: a cast takes
\* energy_per_cast of the charge, which holds max_stack casts at most
get_config_energy_per_cast(skill_info) == IF skill_info = "Damage" THEN 1 ELSE 2
get_config_max_stack(skill_info) == IF skill_info = "Damage" THEN 2 ELSE 1

\* the active_turns and the consumable_amount of the skill_param_table
get_config_active_turns(skill_info) == 1
get_config_consumable_amount(skill_info) == 1

\* the value of the skill_param_table for ShieldAbsorb: the share of a hit the
\* shield absorbs, in RATE_UNIT
get_config_value(skill_info) == RATE_UNIT \div 2

\* the largest u8
U8_MAX == 255

is_shield_type(buff) == buff \in {"ShieldNullify", "ShieldAbsorb"}
is_consumable_type(buff) == buff \in {"ShieldNullify", "ShieldAbsorb"}
is_denfense_type(buff) == buff = "DefenseAmplify" \/ is_shield_type(buff)

\* BuffInfo::get_active_turns, in saturating u8 arithmetic
get_active_turns(buff) ==
    LET turns == get_config_active_turns(buff)
    IN IF turns = 0 THEN 0
       ELSE IF is_denfense_type(buff) THEN Max(0, Min(U8_MAX, turns * 2) - 1)
       ELSE Max(0, Min(U8_MAX, (turns - 1) * 2) - 1)

\* the EnergyChargeInfo of the room's config: the charge a removed bead is
\* worth, of the character's own colour and of the others, the charge of each
\* turn, and GetHitRecoveryType::Fixed with its amount
clear_unit == 1
self_color_multiply == 1
diff_color_multiply == 0
recovery_each_turn == 1
fixed_recovery_amount_by_hit == 1

\* the CharGameInitStatus of the room's config, in percent
hp_remain_rate == 100
cd_filled_rate == 100

\* (value * rate / 100.0).round()
RoundedRate(value, rate) == (2 * value * rate + 100) \div 200

get_element(id) == id % BOARD_NUM_COLORS

get_energy_per_cast(c) == get_config_energy_per_cast(get_skill_info(c.id))

\* SkillParam::new: max_skill_charge = energy_per_cast * max_stack
get_max_skill_charge(c) ==
    get_config_energy_per_cast(get_skill_info(c.id))
        * get_config_max_stack(get_skill_info(c.id))

\* Character::extract_data
extract_data(id) ==
    [id |-> id, current_hp |-> RoundedRate(get_max_hp(id), hp_remain_rate),
     max_hp |-> get_max_hp(id), buff_states |-> <<>>,
     cool_down |-> RoundedRate(get_config_energy_per_cast(get_skill_info(id))
                                   * get_config_max_stack(get_skill_info(id)),
                               cd_filled_rate)]

\* GamerState::new of the two gamers of a room
Gamers(game_mode) ==
    <<[i \in 1..NumPlayerChars |-> extract_data(PlayerChars[i])],
      IF game_mode = "PvE" THEN [i \in 1..Len(EnemyChars) |-> extract_data(EnemyChars[i])]
      ELSE [i \in 1..NumPlayerChars |-> extract_data(RivalChars[i])]>>

is_alive(c) == c.current_hp # 0

update_current_hp(c, hp) == [c EXCEPT !.current_hp = Min(hp, c.max_hp)]

update_hp_Unclamped(c, hp) == [c EXCEPT !.current_hp = hp]

reset_cool_down(c) == [c EXCEPT !.cool_down = 0]

update_hp_KeepCharge(c, hp) == update_current_hp(c, Min(c.max_hp, Max(0, hp)))

\* hp is the i32 the caller computed; max(0, hp) as u32
update_hp(c, hp) ==
    LET updated == update_current_hp(c, Min(c.max_hp, Max(0, hp)))
    IN IF updated.current_hp = 0 THEN reset_cool_down(updated) ELSE updated

\* the charge the beads removed by a move are worth to the character
eval_skill_charge_by_clear(c, removed_beads) ==
    LET Sum[k \in 0..BOARD_NUM_COLORS] ==
            IF k = 0 THEN 0 ELSE Sum[k - 1] + removed_beads[k - 1]
    IN Sum[BOARD_NUM_COLORS] * clear_unit * diff_color_multiply
       + removed_beads[get_element(c.id)] * clear_unit
             * (self_color_multiply - diff_color_multiply)

update_cool_down_Unclamped(c, removed_beads) ==
    [c EXCEPT !.cool_down = @ + eval_skill_charge_by_clear(c, removed_beads)
                              + recovery_each_turn]

update_cool_down(c, removed_beads) ==
    IF ~is_alive(c) THEN c
    ELSE [c EXCEPT !.cool_down =
              Min(get_max_skill_charge(c),
                  @ + eval_skill_charge_by_clear(c, removed_beads) + recovery_each_turn)]

add_extra_cool_down(c, extra_val) ==
    IF ~is_alive(c) THEN c
    ELSE [c EXCEPT !.cool_down = Min(get_max_skill_charge(c), @ + extra_val)]

\* saturating_sub
consume_cool_down(c) == [c EXCEPT !.cool_down = Max(0, @ - get_energy_per_cast(c))]

is_skill_ready_Always(c) == TRUE

is_skill_ready(c) == c.cool_down >= get_energy_per_cast(c)

ActivatingBuff(buff, consumable_amount, end_turn) ==
    [buff |-> buff, consumable_amount |-> consumable_amount, end_turn |-> end_turn]

\* an activated buff gets more of what it is counted in, a new one is pushed,
\* or takes the place of the shield the character has
add_buff_states(c, buff, current_turn) ==
    LET consumable_amount == get_config_consumable_amount(buff) % (U8_MAX + 1)
        active_turns == get_active_turns(buff)
        same == {k \in DOMAIN c.buff_states : c.buff_states[k].buff = buff}
        shields == {k \in DOMAIN c.buff_states : is_shield_type(c.buff_states[k].buff)}
        new_buff == ActivatingBuff(buff, consumable_amount,
                                   Min(U8_MAX, current_turn + active_turns))
        First(set) == CHOOSE k \in set : \A j \in set : k <= j
    IN IF same # {}
       THEN [c EXCEPT !.buff_states[First(same)] =
                IF is_consumable_type(buff)
                THEN [@ EXCEPT !.consumable_amount = Min(U8_MAX, @ + consumable_amount)]
                ELSE [@ EXCEPT !.end_turn = Min(U8_MAX, @ + active_turns)]]
       ELSE IF is_shield_type(buff) /\ shields # {}
       THEN [c EXCEPT !.buff_states[First(shields)] = new_buff]
       ELSE [c EXCEPT !.buff_states = Append(@, new_buff)]

Retained(buff, current_turn) == current_turn <= buff.end_turn /\ 0 < buff.consumable_amount

remove_expired_buff_states_KeepAll(characters, current_turn) == characters

\* GamerState::remove_expired_buff_states over the characters of a party
remove_expired_buff_states(characters, current_turn) ==
    [k \in DOMAIN characters |->
        [characters[k] EXCEPT !.buff_states =
            SelectSeq(@, LAMBDA buff : Retained(buff, current_turn))]]

\* GamerState::update_character_cool_down: latest_state is board_states.last()
update_character_cool_down(characters, latest_state) ==
    IF latest_state = None \/ latest_state[1].kind \notin {"FillState", "RerollState"}
    THEN characters
    ELSE [k \in DOMAIN characters |->
             update_cool_down(characters[k], latest_state[1].board.remove_bead)]

\* GamerState::consume_skill_cool_down
consume_skill_cool_down(characters, char_id) ==
    [k \in DOMAIN characters |->
        IF characters[k].id = char_id THEN consume_cool_down(characters[k])
        ELSE characters[k]]

\* leaves a dead character as it is (and hands back false)
recovery_hp(c, recovery_val) ==
    IF ~is_alive(c) THEN c ELSE update_current_hp(c, c.current_hp + recovery_val)

\* shield_blocking is false (Default::default()) but in eval_attack_result
DamageResult(attacker, defender, defender_received_damage) ==
    [attacker |-> attacker, defender |-> defender,
     defender_received_damage |-> defender_received_damage, shield_blocking |-> FALSE]

\* what the first shield among the buffs of the character makes of a hit:
\* nothing under ShieldNullify, the absorbed share with the sign turned under
\* ShieldAbsorb; the consumable_amount of the buff is not looked at
apply_shield_buff(c, defender_received_damage) ==
    LET shields == {k \in DOMAIN c.buff_states : is_shield_type(c.buff_states[k].buff)}
        shield_type_buff == c.buff_states[CHOOSE k \in shields : \A j \in shields : k <= j]
    IN IF shields = {} THEN <<defender_received_damage, FALSE>>
       ELSE IF shield_type_buff.buff = "ShieldNullify" THEN <<0, TRUE>>
       ELSE <<0 - ((defender_received_damage * get_config_value(shield_type_buff.buff))
                       \div RATE_UNIT), TRUE>>

\* damage is the defender_received_damage raw: what apply_element_modifier
\* makes of the damage the attacker produced
eval_attack_result(attacker_id, defender, damage) ==
    [DamageResult(attacker_id, defender.id, apply_shield_buff(defender, damage)[1])
         EXCEPT !.shield_blocking = apply_shield_buff(defender, damage)[2]]

\* Character::consume_buff: the first consumable buff loses one of its amount
consume_char_buff(c) ==
    LET consumable == {k \in DOMAIN c.buff_states :
                          is_consumable_type(c.buff_states[k].buff)}
    IN IF consumable = {} THEN c
       ELSE [c EXCEPT !.buff_states[CHOOSE k \in consumable : \A j \in consumable : k <= j]
                          .consumable_amount = Max(0, @ - 1)]

\* GamerState::consume_buff: the defender of the first DamageResult a shield
\* blocked
consume_buff(characters, damage_result) ==
    LET blocked == {i \in DOMAIN damage_result : damage_result[i].shield_blocking}
        dr == damage_result[CHOOSE i \in blocked : \A j \in blocked : i <= j]
    IN IF blocked = {} THEN characters
       ELSE [k \in DOMAIN characters |->
                IF characters[k].id = dr.defender THEN consume_char_buff(characters[k])
                ELSE characters[k]]

HasCharacter(characters, id) == \E k \in DOMAIN characters : characters[k].id = id

get_character_logic_data(characters, id) ==
    characters[CHOOSE k \in DOMAIN characters : characters[k].id = id]

get_assist_attackers(characters, main_attacker_id) ==
    SelectSeq(characters, LAMBDA c : is_alive(c) /\ c.id # main_attacker_id)

get_all_alive_character_ids_Everyone(characters) ==
    [k \in DOMAIN characters |-> characters[k].id]

get_all_alive_character_ids(characters) ==
    LET alive_chars == SelectSeq(characters, is_alive)
    IN [k \in DOMAIN alive_chars |-> alive_chars[k].id]

RECURSIVE minus_character_hp(_, _, _)
\* the loop of minus_character_hp over the DamageResults from the i-th on
minus_character_hp(characters, damage_result, i) ==
    IF i > Len(damage_result) THEN characters
    ELSE minus_character_hp(
            [k \in DOMAIN characters |->
                IF characters[k].id = damage_result[i].defender
                THEN add_extra_cool_down(
                         update_hp(characters[k],
                                   characters[k].current_hp
                                       - damage_result[i].defender_received_damage),
                         fixed_recovery_amount_by_hit)
                ELSE characters[k]],
            damage_result, i + 1)

\* damage is what eval_clear_state_damage and the element modifier make of an
\* attacker's cleared beads
eval_damage_result(next_gamer, mover, attacker_id, defender_id, damage) ==
    IF ~HasCharacter(next_gamer[mover + 1], attacker_id)
    THEN [result |-> "CharacterNotFound", damage_result |-> <<>>]
    ELSE IF Len(next_gamer) < 2
    THEN [result |-> "Panic", damage_result |-> <<>>]
    ELSE IF ~HasCharacter(next_gamer[2 - mover], defender_id)
    THEN [result |-> "CharacterNotFound", damage_result |-> <<>>]
    ELSE LET attacker_char_list ==
                 <<get_character_logic_data(next_gamer[mover + 1], attacker_id)>>
                     \o get_assist_attackers(next_gamer[mover + 1], attacker_id)
         IN IF \E k \in DOMAIN attacker_char_list : ~is_alive(attacker_char_list[k])
            THEN [result |-> "IllegalMove", damage_result |-> <<>>]
            ELSE [result |-> "Ok",
                  damage_result |->
                      [k \in DOMAIN attacker_char_list |->
                          eval_attack_result(
                              attacker_char_list[k].id,
                              get_character_logic_data(next_gamer[2 - mover], defender_id),
                              damage)]]

GameState(b, turn, mover, attacker_id, defender_id, board_states, damage_result, gamer) ==
    [board |-> b, turn |-> turn, mover |-> mover, attacker_id |-> attacker_id,
     defender_id |-> defender_id, board_states |-> board_states,
     damage_result |-> damage_result, gamer |-> gamer]

\* n is what Board::new handed back to GameState::init
GameOf(n, seeded_by, game_mode) ==
    [states |-> <<GameState(n.b, 0, 0, None, None, <<>>, <<>>, Gamers(game_mode))>>,
     turn |-> 1, current_active_player_idx |-> 0, rng |-> n.r,
     seeded_by |-> seeded_by, game_mode |-> game_mode, game_over_result |-> None,
     gamers |-> 2, done |-> n.done]

\* seed.unwrap_or_else(|| time.timestamp() as u64)
Game_new(seed, time, game_mode) ==
    GameOf(Board_new(seed_from_u64(IF seed = None THEN time ELSE seed[1]),
                     BOARD_NUM_COLORS, BOARD_WIDTH, BOARD_HEIGHT),
           IF seed = None THEN "clock" ELSE "caller", game_mode)

update_rng(g, seed) == [g EXCEPT !.rng = seed_from_u64(seed), !.seeded_by = "caller"]

\* the turn is a u8
switch_player(g) ==
    [g EXCEPT !.current_active_player_idx = 1 - @, !.turn = (@ + 1) % (U8_MAX + 1)]

check_mover_Anyone(g, player) == TRUE

check_mover(g, player) == g.current_active_player_idx = player

check_legal_move(action) == ~(action.x >= BOARD_WIDTH \/ action.y >= BOARD_HEIGHT)

check_game_winner_Nobody(state) == None

\* the winner a state gives: the rival of the first gamer whose characters'
\* current_hp sum to 0
Defeated(state, index) ==
    \A k \in DOMAIN state.gamer[index + 1] : state.gamer[index + 1][k].current_hp = 0

check_game_winner(state) ==
    IF Defeated(state, 0) THEN Some(1)
    ELSE IF Defeated(state, 1) THEN Some(0) ELSE None

\* if let Some(winner) = check_game_winner(..) { set_game_result(winner, ..) },
\* then states.push(next_game_state)
Pushed(g, next_game_state) ==
    [g EXCEPT !.game_over_result =
                  IF check_game_winner(next_game_state) = None THEN @
                  ELSE check_game_winner(next_game_state),
              !.states = Append(@, next_game_state)]

\* compose_next_state after the simulate and eval_damage_result: s and e are
\* what they handed back
ComposeWith(g, mover, attacker_id, defender_id, s, e) ==
    IF e.result # "Ok" THEN [result |-> e.result, game |-> g]
    ELSE [result |-> "Ok",
          game |-> switch_player(
              Pushed(g, GameState(s.board, g.turn, mover,
                                  Some(attacker_id), Some(defender_id), s.states,
                                  e.damage_result,
                                  [g.states[Len(g.states)].gamer EXCEPT
                                       ![2 - mover] =
                                           remove_expired_buff_states(
                                               minus_character_hp(
                                                   consume_buff(@, e.damage_result),
                                                   e.damage_result, 1),
                                               g.turn),
                                       ![mover + 1] =
                                           update_character_cool_down(
                                               remove_expired_buff_states(@, g.turn),
                                               IF s.states = <<>> THEN None
                                               ELSE Some(s.states[Len(s.states)]))])))]

\* Room::update_game: s is what simulate handed back on the clone of the last
\* state's board, with a clone of the game's generator
UpdateGameWith(g, action, attacker_id, defender_id, s, damage) ==
    IF s.result # "Ok" THEN [result |-> s.result, game |-> g]
    ELSE ComposeWith(g, g.current_active_player_idx, attacker_id, defender_id, s,
                     eval_damage_result(g.states[Len(g.states)].gamer,
                                        g.current_active_player_idx,
                                        attacker_id, defender_id, damage))

\* AttackDecision::Random over the characters that are alive:
\* rand::thread_rng().gen_range(0..candidate_list.len()) is random_pick
select_defender_target(character_data_list, random_pick) ==
    LET candidate_list == SelectSeq(character_data_list, is_alive)
    IN IF candidate_list = <<>> THEN None
       ELSE Some(candidate_list[(random_pick % Len(candidate_list)) + 1].id)

\* the GameState of compose_next_npc_enemy_state, damage_result being what
\* perform_skill handed back
NpcAttacked(g, enemy, attacker_id, defender_id, damage_result) ==
    Pushed(g, GameState(g.states[Len(g.states)].board, g.turn, enemy,
                        Some(attacker_id), defender_id, <<>>, damage_result,
                        [g.states[Len(g.states)].gamer EXCEPT ![2 - enemy] =
                             minus_character_hp(
                                 remove_expired_buff_states(
                                     consume_buff(@, damage_result), g.turn),
                                 damage_result, 1)]))

\* compose_next_npc_enemy_state with the skill NpcAttack: npc_damage is what
\* apply_element_modifier makes of eval_npc_normal_attack; the board of the
\* last state is left as it is
NpcAttack(g, enemy, attacker_id, defender_id, npc_damage) ==
    IF defender_id = None THEN g
    ELSE NpcAttacked(g, enemy, attacker_id, defender_id,
                     <<eval_attack_result(
                           attacker_id,
                           get_character_logic_data(g.states[Len(g.states)].gamer[2 - enemy],
                                                    defender_id[1]),
                           npc_damage)>>)

RECURSIVE EnemyAttacks(_, _, _, _, _, _)
\* the loop of update_enemy_turn over alive_enemy_list from the i-th on
EnemyAttacks(g, enemy, alive_enemy_list, i, random_pick, npc_damage) ==
    IF i > Len(alive_enemy_list) THEN g
    ELSE EnemyAttacks(
            NpcAttack(g, enemy, alive_enemy_list[i],
                      select_defender_target(g.states[Len(g.states)].gamer[2 - enemy],
                                             random_pick),
                      npc_damage),
            enemy, alive_enemy_list, i + 1, random_pick, npc_damage)

update_enemy_turn(g, mover, random_pick, npc_damage) ==
    switch_player(
        EnemyAttacks(g, mover,
                     get_all_alive_character_ids(g.states[Len(g.states)].gamer[mover + 1]),
                     1, random_pick, npc_damage))

\* u is what update_game handed back
MoveUpdated(u, random_pick, npc_damage) ==
    IF u.result # "Ok" THEN u
    ELSE IF u.game.game_mode = "PvE" /\ u.game.game_over_result = None
    THEN [result |-> "Ok",
          game |-> update_enemy_turn(u.game, u.game.current_active_player_idx,
                                     random_pick, npc_damage)]
    ELSE u

\* RoomManager::move_action on the game g of a room, s being what the simulate
\* of update_game hands back
MoveActionWith(g, player, action, attacker_id, defender_id, s, damage, random_pick, npc_damage) ==
    IF ~check_mover(g, player) \/ ~check_legal_move(action)
    THEN [result |-> "IllegalMove", game |-> g]
    ELSE MoveUpdated(UpdateGameWith(g, action, attacker_id, defender_id, s, damage),
                     random_pick, npc_damage)

move_action(g, player, action, attacker_id, defender_id, damage, random_pick, npc_damage) ==
    MoveActionWith(g, player, action, attacker_id, defender_id,
                   simulate(g.states[Len(g.states)].board, action, g.rng),
                   damage, random_pick, npc_damage)

\* the service's action_move: update_room_rng(new_seed), then move_action;
\* the room keeps the new generator when the move is refused
ServiceMove(g, new_seed, player, action, attacker_id, defender_id, damage, random_pick, npc_damage) ==
    move_action(update_rng(g, new_seed), player, action, attacker_id, defender_id,
                damage, random_pick, npc_damage)

\* the buff a shield skill puts on the one ally it names
ShieldCast(next_gamer, current_turn, mover, buff, ally_target_id) ==
    IF ~HasCharacter(next_gamer[mover + 1], ally_target_id)
    THEN [result |-> "InvalidInput", gamer |-> next_gamer, damage_result |-> <<>>]
    ELSE IF ~is_alive(get_character_logic_data(next_gamer[mover + 1], ally_target_id))
    THEN [result |-> "IllegalMove", gamer |-> next_gamer, damage_result |-> <<>>]
    ELSE [result |-> "Ok",
          gamer |-> [next_gamer EXCEPT ![mover + 1] =
                        [k \in DOMAIN @ |->
                            IF @[k].id = ally_target_id
                            THEN add_buff_states(@[k], buff, current_turn) ELSE @[k]]],
          damage_result |-> <<>>]

\* perform_skill for the skills Damage, Recovery, DefenseAmplify and
\* ShieldAbsorb: value is get_config_value() * caster_char.atk / RATE_UNIT, a
\* u32
perform_skill(next_gamer, current_turn, mover, skill_info, caster_id, ally_target_id, rival_target_id, value) ==
    IF skill_info = "ShieldAbsorb"
    THEN ShieldCast(next_gamer, current_turn, mover, "ShieldAbsorb", ally_target_id)
    ELSE IF skill_info = "DefenseAmplify"
    THEN [result |-> "Ok",
          gamer |-> [next_gamer EXCEPT ![mover + 1] =
                        [k \in DOMAIN @ |->
                            add_buff_states(@[k], "DefenseAmplify", current_turn)]],
          damage_result |-> <<>>]
    ELSE IF skill_info = "Damage"
    THEN IF rival_target_id = None
         THEN [result |-> "InvalidInput", gamer |-> next_gamer, damage_result |-> <<>>]
         ELSE IF ~HasCharacter(next_gamer[2 - mover], rival_target_id[1])
         THEN [result |-> "CharacterNotFound", gamer |-> next_gamer, damage_result |-> <<>>]
         ELSE IF ~is_alive(get_character_logic_data(next_gamer[2 - mover], rival_target_id[1]))
         THEN [result |-> "IllegalMove", gamer |-> next_gamer, damage_result |-> <<>>]
         ELSE [result |-> "Ok", gamer |-> next_gamer,
               damage_result |-> <<DamageResult(caster_id, rival_target_id[1], value)>>]
    ELSE LET allies == next_gamer[mover + 1]
             healed == SelectSeq(allies, is_alive)
         IN [result |-> "Ok",
             gamer |-> [next_gamer EXCEPT ![mover + 1] =
                           [k \in DOMAIN allies |-> recovery_hp(allies[k], value)]],
             damage_result |->
                 [k \in DOMAIN healed |-> DamageResult(caster_id, healed[k].id, 0 - value)]]

\* p is what perform_skill handed back; the skill leaves the board as it is.
\* No damage_result of these skills has shield_blocking set, so the
\* consume_buff of the rival (skipped for the skill Damage) changes nothing.
SkillPerformed(g, mover, caster_id, rival_target_id, p) ==
    IF p.result # "Ok" THEN [result |-> p.result, game |-> g]
    ELSE [result |-> "Ok",
          game |-> Pushed(g, GameState(g.states[Len(g.states)].board, g.turn, mover,
                                       Some(caster_id), rival_target_id, <<>>,
                                       p.damage_result,
                                       [p.gamer EXCEPT
                                            ![mover + 1] =
                                                consume_skill_cool_down(@, caster_id),
                                            ![2 - mover] =
                                                minus_character_hp(
                                                    remove_expired_buff_states(@, g.turn),
                                                    p.damage_result, 1)]))]

\* Room::activate_skill with compose_next_skill_state; next_gamer[rival] is
\* an index out of bounds while the room has one gamer
activate_skill(g, mover, caster_id, ally_target_id, rival_target_id, value) ==
    LET next_gamer == g.states[Len(g.states)].gamer
    IN IF ~HasCharacter(next_gamer[mover + 1], caster_id)
       THEN [result |-> "CharacterNotFound", game |-> g]
       ELSE IF ~is_alive(get_character_logic_data(next_gamer[mover + 1], caster_id))
       THEN [result |-> "IllegalMove", game |-> g]
       ELSE IF ~is_skill_ready(get_character_logic_data(next_gamer[mover + 1], caster_id))
       THEN [result |-> "SkillNotReady", game |-> g]
       ELSE IF Len(next_gamer) < 2
       THEN [result |-> IF get_skill_info(caster_id) = "Damage" /\ rival_target_id = None
                        THEN "InvalidInput" ELSE "Panic",
             game |-> g]
       ELSE SkillPerformed(g, mover, caster_id, rival_target_id,
                           perform_skill(next_gamer, g.turn, mover,
                                         get_skill_info(caster_id),
                                         caster_id, ally_target_id, rival_target_id,
                                         value))

\* RoomManager::skill_action on the game g of a room
skill_action(g, player, caster_id, ally_target_id, rival_target_id, value) ==
    IF ~check_mover(g, player) THEN [result |-> "IllegalMove", game |-> g]
    ELSE activate_skill(g, g.current_active_player_idx, caster_id, ally_target_id,
                        rival_target_id, value)

\* the service's activate_skill: update_room_rng(new_seed), then skill_action
ServiceSkill(g, new_seed, player, caster_id, ally_target_id, rival_target_id, value) ==
    skill_action(update_rng(g, new_seed), player, caster_id, ally_target_id,
                 rival_target_id, value)

\* RoomManager::create_private_room: Room::new and the set_player of the
\* first gamer; g is what Game::new handed back
create_private_room(g) ==
    [g EXCEPT !.gamers = 1, !.states[1].gamer = <<Gamers(g.game_mode)[1]>>]

\* RoomManager::join_private_room: the set_player of the second gamer pushes
\* its party onto the first GameState
join_private_room(g) ==
    IF g.gamers = 2 THEN [result |-> "RoomIsFull", game |-> g]
    ELSE [result |-> "Ok",
          game |-> [g EXCEPT !.gamers = 2,
                             !.states[1].gamer = Append(@, Gamers(g.game_mode)[2])]]

\* Room::set_game_forfeit under RoomManager::quit_game: the player_map knows
\* the gamers of the room; self.gamers[1 - i] is an index out of bounds while
\* the room has one gamer
set_game_forfeit(g, forfeit_player_id) ==
    IF forfeit_player_id >= g.gamers THEN [result |-> "RoomNotFound", game |-> g]
    ELSE IF g.game_over_result # None THEN [result |-> "Ok", game |-> g]
    ELSE IF 1 - forfeit_player_id >= g.gamers THEN [result |-> "Panic", game |-> g]
    ELSE [result |-> "Ok",
          game |-> [g EXCEPT !.game_over_result = Some(1 - forfeit_player_id)]]

\* RoomManager::quit_game: the player_map holds the senders that created or
\* joined the room, never the enemy of a PvE room
quit_game(g, player) ==
    IF g.game_mode = "PvE" /\ player # 0 THEN [result |-> "RoomNotFound", game |-> g]
    ELSE set_game_forfeit(g, player)

\* RoomManager::create_pve_room: seed is the caller's Option<u64>; the two
\* runs read the clock on their own
Created(g1, g2) ==
    /\ g1.done /\ g2.done
    /\ room' = [k \in DOMAIN NoGame |-> g1[k]]
    /\ replay' = [k \in DOMAIN NoGame |-> g2[k]]
    /\ draws' = {g1.seeded_by}
    /\ UNCHANGED <<bvars, xvars>>

CreatePveRoom(seed, time1, time2) ==
    /\ room = NoGame
    /\ Created(Game_new(seed, time1, "PvE"), Game_new(seed, time2, "PvE"))

\* m1 and m2 are what the two runs made of the same request
Moved(m1, m2) ==
    /\ m1.result # "NoReturn" /\ m2.result # "NoReturn"
    /\ room' = m1.game
    /\ replay' = m2.game
    /\ draws' = draws \cup (IF m1.result = "Ok" THEN {m1.game.seeded_by, "thread"} ELSE {})
    /\ UNCHANGED <<bvars, xvars>>

\* a request of the player of the room; the attacks of the two sides are worth
\* damage and npc_damage in both runs
ActionMove(new_seed, action, attacker_id, defender_id, damage, npc_damage, pick1, pick2) ==
    /\ room # NoGame
    /\ room.turn < 2 * MaxMoves
    /\ replay.turn < 2 * MaxMoves
    /\ Moved(ServiceMove(room, new_seed, 0, action, attacker_id, defender_id, damage,
                         pick1, npc_damage),
             ServiceMove(replay, new_seed, 0, action, attacker_id, defender_id, damage,
                         pick2, npc_damage))

\* the MoveAction of a request: a cell and a direction
MoveActions ==
    [x : 0..(BOARD_WIDTH - 1), y : 0..(BOARD_HEIGHT - 1), direction : Directions]

NextGame ==
    \/ \E seed \in {Some(v) : v \in Seeds} \cup {None}, time1 \in Clock, time2 \in Clock :
          CreatePveRoom(seed, time1, time2)
    \/ \E new_seed \in Seeds, action \in MoveActions,
          attacker_id \in 1..NumPlayerChars, damage \in 0..1,
          pick1 \in 0..(NumPlayerChars - 1), pick2 \in 0..(NumPlayerChars - 1) :
          ActionMove(new_seed, action, attacker_id, EnemyChars[1], damage, 1,
                     pick1, pick2)

SpecGame == Init /\ [][NextGame]_vars

\* --------------------------------------------------------------- cell view
\* the board as a player sees it: the colours found at each playable cell
ColorsAt(b, x, y) ==
    {c \in 0..(b.num_colors - 1) : (x + MASK_OFFSET) \in b.board[c][y]}

Cells(b) == [p \in (0..(b.width - 1)) \X (0..(b.height - 1)) |-> ColorsAt(b, p[1], p[2])]

\* three cells in a row from p in direction d share a colour
RunAt(g, p, d) ==
    \E c \in g[p] : /\ c \in g[<<p[1] + d[1], p[2] + d[2]>>]
                    /\ c \in g[<<p[1] + 2 * d[1], p[2] + 2 * d[2]>>]

\* the grid g of w columns and h rows has a horizontal or vertical run
GridHasRun(g, w, h) ==
    \/ \E x \in 0..(w - 3), y \in 0..(h - 1) : RunAt(g, <<x, y>>, <<1, 0>>)
    \/ \E x \in 0..(w - 1), y \in 0..(h - 3) : RunAt(g, <<x, y>>, <<0, 1>>)

HasRun(b) == GridHasRun(Cells(b), b.width, b.height)

\* the neighbour a move exchanges its cell with
Target(mv) ==
    CASE mv.direction = "Right" -> <<mv.x + 1, mv.y>>
      [] mv.direction = "Left" -> <<mv.x - 1, mv.y>>
      [] mv.direction = "Up" -> <<mv.x, mv.y + 1>>
      [] mv.direction = "Down" -> <<mv.x, mv.y - 1>>

\* both cells of the move are cells of the board
InBounds(b, mv) ==
    /\ mv.x \in 0..(b.width - 1) /\ mv.y \in 0..(b.height - 1)
    /\ Target(mv)[1] \in 0..(b.width - 1) /\ Target(mv)[2] \in 0..(b.height - 1)

\* the grid of b with the two cells of the move exchanged has a run
SwapMatches(b, mv) ==
    /\ InBounds(b, mv)
    /\ GridHasRun([Cells(b) EXCEPT ![<<mv.x, mv.y>>] = Cells(b)[Target(mv)],
                                   ![Target(mv)] = Cells(b)[<<mv.x, mv.y>>]],
                  b.width, b.height)

HasLegalSwap(b) == \E mv \in Moves(b) : SwapMatches(b, mv)

\* the move leaves the board: its cell is on the edge and it points outward
Outward(b, mv) ==
    \/ mv.direction = "Left" /\ mv.x = 0
    \/ mv.direction = "Right" /\ mv.x = b.width - 1
    \/ mv.direction = "Down" /\ mv.y = 0
    \/ mv.direction = "Up" /\ mv.y = b.height - 1

\* ---------------------------------------------------------------- the battle
\* the requests of a battle one at a time: a room of either mode, then moves
\* and skill activations sent under the id of either gamer or of a stranger
Players == 0..2

\* the seed the requests of the battle carry
BattleSeed == 0

\* what a hit may be worth before apply_shield_buff, and what the skill of a
\* caster or the attack of an enemy may be worth
Damages == {0, 1, MaxHp + 1}
SkillValues == {1, MaxHp + 1}

\* a swap simulate accepts on the board b, and a cell that is off the board
BattleMoves(b) ==
    {CHOOSE mv \in MoveActions : SwapMatches(b, mv),
     [x |-> BOARD_WIDTH, y |-> 0, direction |-> "Up"]}

\* the enemy's turn follows the move in a PvE room only
NpcInputs(g) ==
    IF g.game_mode = "PvE" THEN (0..(NumPlayerChars - 1)) \X SkillValues
    ELSE {<<0, 0>>}

\* g is what Game::new handed back
RoomCreated(g) ==
    /\ g.done
    /\ room' = [k \in DOMAIN NoGame |-> g[k]]
    /\ last' = Call("create_room", [game_mode |-> g.game_mode], NoGame, "Ok", <<>>)
    /\ UNCHANGED <<board, rng, nops, replay, draws, xvars>>

CreateRoom(game_mode, seed) ==
    /\ room = NoGame
    /\ RoomCreated(Game_new(Some(seed), 0, game_mode))

\* m is what the room manager handed back for the request req
Requested(op, req, m) ==
    /\ m.result # "NoReturn"
    /\ room' = m.game
    /\ last' = Call(op, req, room, m.result, <<>>)
    /\ nops' = nops + 1
    /\ UNCHANGED <<board, rng, replay, draws, xvars>>

\* the service's action_move for every sender and every pair of characters; s
\* is what the simulate of the request hands back
MoveRequests(action, s) ==
    \E player \in Players, attacker_id \in CharIds, defender_id \in CharIds,
       damage \in Damages, npc \in NpcInputs(room) :
       Requested("move_action",
                 [player |-> player, action |-> action, attacker_id |-> attacker_id,
                  defender_id |-> defender_id, damage |-> damage],
                 MoveActionWith(update_rng(room, BattleSeed), player, action,
                                attacker_id, defender_id, s, damage, npc[1], npc[2]))

RequestMove ==
    /\ room # NoGame
    /\ nops < MaxRequests
    /\ \E action \in BattleMoves(room.states[Len(room.states)].board) :
          MoveRequests(action,
                       simulate(room.states[Len(room.states)].board, action,
                                seed_from_u64(BattleSeed)))

RequestSkill(player, caster_id, ally_target_id, rival_target_id, value) ==
    /\ room # NoGame
    /\ nops < MaxRequests
    /\ Requested("skill_action",
                 [player |-> player, caster_id |-> caster_id,
                  rival_target_id |-> rival_target_id, value |-> value],
                 ServiceSkill(room, BattleSeed, player, caster_id, ally_target_id,
                              rival_target_id, value))

NextBattle ==
    \/ \E game_mode \in GameModes : CreateRoom(game_mode, BattleSeed)
    \/ RequestMove
    \/ \E player \in Players, caster_id \in CharIds,
          rival_target_id \in {Some(id) : id \in CharIds} \cup {None},
          value \in SkillValues :
          RequestSkill(player, caster_id, caster_id, rival_target_id, value)

SpecBattle == Init /\ [][NextBattle]_vars

\* the service's quit_game among the requests of the battle
RequestQuit(player) ==
    /\ room # NoGame
    /\ nops < MaxRequests
    /\ Requested("quit_game", [player |-> player], quit_game(room, player))

NextForfeit ==
    \/ NextBattle
    \/ \E player \in Players : RequestQuit(player)

SpecForfeit == Init /\ [][NextForfeit]_vars

\* ------------------------------------------------------------ the long battle
\* a two-player battle of MaxBattle requests in a private room: a move
\* with a swap the board accepts, the first living character of each side and
\* hits worth 0, or the skill of a character of the mover.  Skills are cast in
\* the first MaxSkillRequests requests; the battles that go on are those of
\* moves alone.
MaxBattle == 257
MaxSkillRequests == 6

\* the seeds the requests of the long battle carry
LongSeeds == 0..7

\* the swap and the seed of the request: a swap the board accepts with a seed
\* whose cascade settles within MaxLoop rounds
LongMove(b) ==
    CHOOSE req \in MoveActions \X LongSeeds :
        /\ SwapMatches(b, req[1])
        /\ simulate(b, req[1], seed_from_u64(req[2])).result = "Ok"

FirstAlive(characters) ==
    characters[CHOOSE k \in DOMAIN characters :
                  /\ is_alive(characters[k])
                  /\ \A j \in 1..(k - 1) : ~is_alive(characters[j])].id

NoSkillCast(g) ==
    /\ g.game_over_result = None
    /\ g.gamers = 2
    /\ \A i \in 2..Len(g.states) : g.states[i].board_states # <<>>

\* the defender of the request: the first living character of the other side,
\* the first character of the party to come while the room has one gamer
FirstRival(state, mover) ==
    IF Len(state.gamer) < 2 THEN RivalChars[1] ELSE FirstAlive(state.gamer[2 - mover])

\* self.turn += 1 on the u8 turn of the game pre: a build with overflow checks
\* panics where the sum does not fit, a build without them wraps it; m is
\* what the request gives with the sum wrapped
WithOverflowChecks(pre, m, overflow_checks) ==
    IF overflow_checks /\ m.result = "Ok" /\ m.game.turn < pre.turn
    THEN [result |-> "Panic", game |-> pre]
    ELSE m

\* move is the swap and the seed of the request, s what its simulate hands back
PlayMoveWith(move, s) ==
    \E overflow_checks \in BOOLEAN :
        LET state == room.states[Len(room.states)]
            mover == room.current_active_player_idx
            req == [player |-> mover, action |-> move[1],
                    attacker_id |-> FirstAlive(state.gamer[mover + 1]),
                    defender_id |-> FirstRival(state, mover),
                    damage |-> 0]
        IN Requested("move_action", req,
                     WithOverflowChecks(
                         room,
                         MoveActionWith(update_rng(room, move[2]), req.player, req.action,
                                        req.attacker_id, req.defender_id, s, req.damage,
                                        0, 0),
                         overflow_checks))

PlayMoveOf(move) ==
    PlayMoveWith(move, simulate(room.states[Len(room.states)].board, move[1],
                                seed_from_u64(move[2])))

PlayMove ==
    /\ room # NoGame
    /\ nops < MaxBattle
    /\ nops < MaxSkillRequests \/ NoSkillCast(room)
    /\ PlayMoveOf(LongMove(room.states[Len(room.states)].board))

PlaySkill(caster_id) ==
    /\ room # NoGame
    /\ nops < MaxSkillRequests
    /\ HasCharacter(room.states[Len(room.states)].gamer[room.current_active_player_idx + 1],
                    caster_id)
    /\ Requested("skill_action",
                 [player |-> room.current_active_player_idx, caster_id |-> caster_id,
                  rival_target_id |->
                      Some(FirstRival(room.states[Len(room.states)],
                                      room.current_active_player_idx)),
                  value |-> 0],
                 ServiceSkill(room, BattleSeed, room.current_active_player_idx,
                              caster_id, caster_id,
                              Some(FirstRival(room.states[Len(room.states)],
                                              room.current_active_player_idx)),
                              0))

\* the service's create_private_room, whose room draws its seed from the clock
CreatePrivateRoom ==
    /\ room = NoGame
    /\ RoomCreated(create_private_room(Game_new(None, BattleSeed, "PvP")))

\* the service's join_private_room, sent by the other gamer
JoinPrivateRoom ==
    /\ room # NoGame
    /\ room.gamers < 2
    /\ nops < MaxSkillRequests
    /\ Requested("join_private_room", [player |-> 1], join_private_room(room))

\* the service's quit_game
QuitGame(player) ==
    /\ room # NoGame
    /\ nops < MaxSkillRequests
    /\ Requested("quit_game", [player |-> player], quit_game(room, player))

NextLong ==
    \/ CreatePrivateRoom
    \/ JoinPrivateRoom
    \/ \E player \in Players : QuitGame(player)
    \/ PlayMove
    \/ \E caster_id \in CharIds : PlaySkill(caster_id)

SpecLong == Init /\ [][NextLong]_vars

\* ---------------------------------------------------------- the shielded battle
\* a two-player battle of MaxShieldRequests requests sent by the active mover
\* while no side is down: a move with a swap the board accepts, made by the
\* first living character of the mover against any character of the other
\* side, or the skill of a character of the mover, cast on the caster and on
\* any character of the other side
MaxShieldRequests == 5

\* what the hits of a move are worth before apply_shield_buff
ShieldDamages == {0, MaxHp + 1}

\* move is the swap and the seed of the request, s what its simulate hands back
ShieldMoveWith(move, s, defender_id, damage) ==
    Requested("move_action",
              [player |-> room.current_active_player_idx, action |-> move[1],
               attacker_id |->
                   FirstAlive(room.states[Len(room.states)]
                                  .gamer[room.current_active_player_idx + 1]),
               defender_id |-> defender_id, damage |-> damage],
              MoveActionWith(update_rng(room, move[2]), room.current_active_player_idx,
                             move[1],
                             FirstAlive(room.states[Len(room.states)]
                                            .gamer[room.current_active_player_idx + 1]),
                             defender_id, s, damage, 0, 0))

ShieldMoveOf(move, defender_id, damage) ==
    ShieldMoveWith(move,
                   simulate(room.states[Len(room.states)].board, move[1],
                            seed_from_u64(move[2])),
                   defender_id, damage)

ShieldMove(defender_id, damage) ==
    /\ room # NoGame
    /\ room.game_over_result = None
    /\ nops < MaxShieldRequests
    /\ HasCharacter(room.states[Len(room.states)].gamer[2 - room.current_active_player_idx],
                    defender_id)
    /\ ShieldMoveOf(<<CHOOSE mv \in MoveActions :
                          SwapMatches(room.states[Len(room.states)].board, mv),
                      BattleSeed>>,
                    defender_id, damage)

ShieldSkill(caster_id, rival_target_id, value) ==
    /\ room # NoGame
    /\ room.game_over_result = None
    /\ nops < MaxShieldRequests
    /\ HasCharacter(room.states[Len(room.states)].gamer[room.current_active_player_idx + 1],
                    caster_id)
    /\ HasCharacter(room.states[Len(room.states)].gamer[2 - room.current_active_player_idx],
                    rival_target_id)
    /\ Requested("skill_action",
                 [player |-> room.current_active_player_idx, caster_id |-> caster_id,
                  rival_target_id |-> Some(rival_target_id), value |-> value],
                 ServiceSkill(room, BattleSeed, room.current_active_player_idx,
                              caster_id, caster_id, Some(rival_target_id), value))

NextShield ==
    \/ CreateRoom("PvP", BattleSeed)
    \/ \E defender_id \in CharIds, damage \in ShieldDamages : ShieldMove(defender_id, damage)
    \/ \E caster_id \in CharIds, rival_target_id \in CharIds :
          ShieldSkill(caster_id, rival_target_id, MaxHp + 1)

SpecShield == Init /\ [][NextShield]_vars

\* ----------------------------------------------------------- the rollup inputs
\* the advance requests the rollup loop handles, one room at a time: the
\* deposits the Ether portal reports, the wallets senders attach, the users'
\* requests to create, join and quit a private room and to move, and the
\* transfers.  An input is handled whole: advance_state, then the status the
\* loop finishes it with; the rollup server keeps the vouchers of the inputs
\* that were accepted.
MaxInputs == 5
MaxWalletInputs == 3
MaxEther == 2

\* the amounts are counted in units of the STAKE of config.rs, 10^15 wei
STAKE == 1

get_balance(d, address) == d.balance_map[address]

\* BalanceManager::deposit: saturating_add stops at the largest U256, far above
\* the sums of the amounts tried
deposit(d, address, amount) ==
    [d EXCEPT !.balance_map[address] =
        IF @ = None THEN Some(amount) ELSE Some(@[1] + amount)]

withdraw(d, address, amount) ==
    IF get_balance(d, address) = None \/ get_balance(d, address)[1] < amount
    THEN [result |-> "InsufficientBalance", dapp |-> d]
    ELSE [result |-> "Ok",
          dapp |-> [d EXCEPT !.balance_map[address] = Some(@[1] - amount)]]

\* the VoucherMeta of a voucher is kept by its amount
update_voucher_meta(d, address, amount) ==
    [d EXCEPT !.voucher_meta_map[address] = Append(@, amount)]

set_ingame_wallet(d, metamask_wallet_address, ingame_wallet_address) ==
    [d EXCEPT !.wallet_map[metamask_wallet_address] = Some(ingame_wallet_address)]

is_ingame_wallet_attached(d, ingame_wallet_address) ==
    \E metamask_wallet \in Addrs : d.wallet_map[metamask_wallet] = Some(ingame_wallet_address)

auth_msg_sender(d, msg_sender) ==
    IF ~is_ingame_wallet_attached(d, msg_sender) THEN "InvalidIngameWallet"
    ELSE IF (IF get_balance(d, msg_sender) = None THEN 0 ELSE get_balance(d, msg_sender)[1])
                < STAKE
    THEN "InsufficientTournamentFee"
    ELSE "Ok"

\* what a handler posts to the http dispatcher while it handles an input
Voucher(to_address, amount) == [kind |-> "voucher", user |-> to_address, amount |-> amount]
Notice(user) == [kind |-> "notice", user |-> user, amount |-> 0]

\* what a handler hands back: its Result, the FinishStatus of an Ok, the
\* managers and the room as it leaves them, and what it posted
Handled(result, status, d, g, outputs) ==
    [result |-> result, status |-> status, dapp |-> d, game |-> g, outputs |-> outputs]

\* the player_map of the room: the index of the gamer a user is, NumAddrs for
\* a user that is no gamer of the room
PlayerOf(d, user) ==
    IF \E k \in DOMAIN d.users : d.users[k] = user
    THEN (CHOOSE k \in DOMAIN d.users : d.users[k] = user) - 1
    ELSE NumAddrs

\* transfer after its send_voucher: w is what withdraw handed back
Withdrawn(d, g, w, from_address, to_address, amount) ==
    IF w.result # "Ok"
    THEN Handled(w.result, "accept", d, g, <<Voucher(to_address, amount)>>)
    ELSE Handled("Ok", "accept",
                 deposit(update_voucher_meta(w.dapp, to_address, amount),
                         to_address, amount),
                 g,
                 <<Voucher(to_address, amount), Notice(from_address), Notice(to_address)>>)

\* the service's transfer: http_ok tells whether the http dispatcher answers
\* the posts of this input
transfer(d, g, from_address, to_address, amount, http_ok) ==
    IF ~http_ok THEN Handled("FailedToSendReport", "accept", d, g, <<>>)
    ELSE Withdrawn(d, g, withdraw(d, from_address, amount),
                   from_address, to_address, amount)

\* the arms of advance_state for the requests of a game: auth_msg_sender on
\* the sender of the input, then the handler, h being what it hands back
Authenticated(d, g, msg_sender, h) ==
    IF auth_msg_sender(d, msg_sender) # "Ok"
    THEN Handled(auth_msg_sender(d, msg_sender), "accept", d, g, <<>>)
    ELSE h

\* what a handler of the room manager's answer m makes: the room snapshot is
\* sent to the user of the request when the answer is Ok
RoomHandled(d, m, user) ==
    Handled(m.result, "accept", d, m.game,
            IF m.result = "Ok" THEN <<Notice(user)>> ELSE <<>>)

\* the status rollup finishes the input with: an Err of the handler is sent
\* as a report by advance_state, which hands back Accept once the report is
\* posted; only an Err of advance_state itself makes the status Reject
FinishStatus(h, http_ok) ==
    IF h.result = "Ok" THEN h.status
    ELSE IF http_ok THEN "accept" ELSE "reject"

\* the input req is handled: the rollup server keeps the vouchers of an input
\* that is accepted
Advanced(op, req, h, http_ok) ==
    /\ room' = h.game
    /\ dapp' = [h.dapp EXCEPT !.vouchers =
                   IF FinishStatus(h, http_ok) = "accept"
                   THEN @ \o SelectSeq(h.outputs, LAMBDA o : o.kind = "voucher")
                   ELSE @]
    /\ last' = Call(op, req, [room |-> room, dapp |-> dapp],
                    FinishStatus(h, http_ok), h.outputs)
    /\ nops' = nops + 1
    /\ UNCHANGED <<board, rng, replay, draws, calc>>

\* an input of the Ether portal: handle_deposit
Deposit(depositer, amount) ==
    /\ dapp.deposited + amount <= MaxEther
    /\ Advanced("deposit", [depositer |-> depositer, amount |-> amount],
                Handled("Ok", "accept",
                        [deposit(dapp, depositer, amount) EXCEPT !.deposited = @ + amount],
                        room, <<Notice(depositer)>>),
                TRUE)

\* the deposits of the inputs of a game, and those of the transfers
RollupDeposit(depositer) == nops < MaxInputs /\ Deposit(depositer, STAKE)
WalletDeposit(depositer, amount) == nops < MaxWalletInputs /\ Deposit(depositer, amount)

AttachIngameWallet(msg_sender, ingame_wallet_address) ==
    /\ nops < MaxInputs
    /\ Advanced("attach_ingame_wallet",
                [msg_sender |-> msg_sender,
                 ingame_wallet_address |-> ingame_wallet_address],
                Handled("Ok", "accept",
                        set_ingame_wallet(dapp, msg_sender, ingame_wallet_address),
                        room, <<Notice(msg_sender)>>),
                TRUE)

TransferBalance(msg_sender, from_address, to_address, amount, http_ok) ==
    /\ nops < MaxWalletInputs
    /\ Advanced("transfer",
                [msg_sender |-> msg_sender, from_address |-> from_address,
                 to_address |-> to_address, amount |-> amount],
                transfer(dapp, room, from_address, to_address, amount, http_ok),
                http_ok)

\* g is what Game::new handed back
RollupCreateWith(msg_sender, user, g) ==
    /\ g.done
    /\ Advanced("create_private_room", [msg_sender |-> msg_sender, user |-> user],
                Authenticated(dapp, room, msg_sender,
                              Handled("Ok", "accept", [dapp EXCEPT !.users = <<user>>],
                                      [k \in DOMAIN NoGame |-> create_private_room(g)[k]],
                                      <<Notice(user)>>)),
                TRUE)

RollupCreate(msg_sender, user) ==
    /\ nops < MaxInputs
    /\ room = NoGame
    /\ RollupCreateWith(msg_sender, user, Game_new(None, BattleSeed, "PvP"))

\* the service's join_private_room: a user that is in a room is turned away
\* with the status Reject; the room of the user that joined gets its seed
RollupJoin(msg_sender, user) ==
    /\ nops < MaxInputs
    /\ room # NoGame
    /\ Advanced("join_private_room", [msg_sender |-> msg_sender, user |-> user],
                Authenticated(
                    dapp, room, msg_sender,
                    IF \E k \in DOMAIN dapp.users : dapp.users[k] = user
                    THEN Handled("Ok", "reject", dapp, room, <<>>)
                    ELSE IF join_private_room(room).result # "Ok"
                    THEN RoomHandled(dapp, join_private_room(room), user)
                    ELSE RoomHandled([dapp EXCEPT !.users = Append(@, user)],
                                     [result |-> "Ok",
                                      game |-> update_rng(join_private_room(room).game,
                                                          BattleSeed)],
                                     user)),
                TRUE)

RollupQuit(msg_sender, user) ==
    /\ nops < MaxInputs
    /\ room # NoGame
    /\ Advanced("quit_game", [msg_sender |-> msg_sender, user |-> user],
                Authenticated(dapp, room, msg_sender,
                              RoomHandled(dapp, quit_game(room, PlayerOf(dapp, user)), user)),
                TRUE)

\* action is the swap of the request, s what its simulate hands back; the
\* attacker and the defender are the first living characters of the two sides
RollupMoveWith(msg_sender, user, action, s) ==
    Advanced("move_action", [msg_sender |-> msg_sender, user |-> user],
             Authenticated(
                 dapp, room, msg_sender,
                 RoomHandled(
                     dapp,
                     MoveActionWith(
                         update_rng(room, BattleSeed), PlayerOf(dapp, user), action,
                         FirstAlive(room.states[Len(room.states)]
                                        .gamer[room.current_active_player_idx + 1]),
                         FirstAlive(room.states[Len(room.states)]
                                        .gamer[2 - room.current_active_player_idx]),
                         s, 0, 0, 0),
                     user)),
             TRUE)

RollupMoveOf(msg_sender, user, action) ==
    RollupMoveWith(msg_sender, user, action,
                   simulate(room.states[Len(room.states)].board, action,
                            seed_from_u64(BattleSeed)))

RollupMove(msg_sender, user) ==
    /\ nops < MaxInputs
    /\ room # NoGame
    /\ room.gamers = 2
    /\ RollupMoveOf(msg_sender, user,
                    CHOOSE mv \in MoveActions :
                        SwapMatches(room.states[Len(room.states)].board, mv))

NextRollup ==
    \/ \E depositer \in Addrs : RollupDeposit(depositer)
    \/ \E msg_sender \in Addrs, ingame_wallet_address \in Addrs :
          AttachIngameWallet(msg_sender, ingame_wallet_address)
    \/ \E msg_sender \in Addrs, user \in Addrs : RollupCreate(msg_sender, user)
    \/ \E msg_sender \in Addrs, user \in Addrs : RollupJoin(msg_sender, user)
    \/ \E msg_sender \in Addrs, user \in Addrs : RollupQuit(msg_sender, user)
    \/ \E msg_sender \in Addrs, user \in Addrs : RollupMove(msg_sender, user)

SpecRollup == Init /\ [][NextRollup]_vars

NextWallet ==
    \/ \E depositer \in Addrs, amount \in 1..MaxEther : WalletDeposit(depositer, amount)
    \/ \E msg_sender \in Addrs, from_address \in Addrs, to_address \in Addrs,
          amount \in 0..MaxEther, http_ok \in BOOLEAN :
          TransferBalance(msg_sender, from_address, to_address, amount, http_ok)

SpecWallet == Init /\ [][NextWallet]_vars

\* ------------------------------------------------------- the damage of a move
\* The f64 arithmetic of the damage formula, done exactly on fractions n / d;
\* a fraction of denominator 0 stands for the NaN that 0.0 / 0.0 gives.
MaxGems == 4
MaxAtk == 2

RECURSIVE Gcd(_, _)
Gcd(a, b) == IF b = 0 THEN a ELSE Gcd(b, a % b)

Frac(n, d) == IF d = 0 THEN [n |-> 0, d |-> 0] ELSE [n |-> n \div Gcd(n, d), d |-> d \div Gcd(n, d)]
FracMul(x, y) == Frac(x.n * y.n, x.d * y.d)
FracAdd(x, y) == Frac(x.n * y.d + y.n * x.d, x.d * y.d)

RECURSIVE Pow(_, _)
Pow(a, k) == IF k = 0 THEN 1 ELSE a * Pow(a, k - 1)

\* f64::round of a fraction that is not negative, cast with `as u32`: halves
\* go up and the cast turns NaN into 0 (it saturates at u32::MAX, far above
\* the damage of the attributes tried here)
RoundAsU32(x) == IF x.d = 0 THEN 0 ELSE (2 * x.n + x.d) \div (2 * x.d)

\* the DamageFormulaCoefficient of the config: a, b and d are positive, the
\* decrease_rate is at least 0 and less than 1 (is_valid_param)
Coefs == {[a |-> 1, b |-> 1, d |-> 1, exp |-> 1], [a |-> 2, b |-> 1, d |-> 2, exp |-> 2]}
DecreaseRates == {Frac(0, 1), Frac(1, 2), Frac(2, 3)}
ZoneBuffRates == {0, RATE_UNIT \div 2}
NerfModifiers == {RATE_UNIT, RATE_UNIT \div 2}

base_damage_formula(coef, atk, def) ==
    IF atk >= def THEN FracMul(Frac(coef.a, 1), Frac(Pow(atk, coef.exp), atk + def * coef.b))
    ELSE FracMul(Frac(coef.b, 1), Frac(Pow(atk, coef.exp), atk + def * coef.d))

\* a curve that swings: the rate taken with the opposite sign
amount_modifier_Alternating(decrease_rate, gems) ==
    Frac((Pow(decrease_rate.d, gems) - Pow(0 - decrease_rate.n, gems)) * decrease_rate.d,
         Pow(decrease_rate.d, gems) * (decrease_rate.d + decrease_rate.n))

\* (1.0 - decrease_rate.powf(gems)) / (1.0 - decrease_rate)
amount_modifier(decrease_rate, gems) ==
    Frac((Pow(decrease_rate.d, gems) - Pow(decrease_rate.n, gems)) * decrease_rate.d,
         Pow(decrease_rate.d, gems) * (decrease_rate.d - decrease_rate.n))

RECURSIVE SumUpTo(_, _)
SumUpTo(gem_amount, c) == IF c < 0 THEN 0 ELSE gem_amount[c] + SumUpTo(gem_amount, c - 1)
\* gem_amount.iter().sum()
GemSum(gem_amount) == SumUpTo(gem_amount, BOARD_NUM_COLORS - 1)

total_gems_amount_damage(decrease_rate, zone_buff_rate, event, base_damage, gem_amount) ==
    LET raw_damage == FracMul(base_damage, amount_modifier(decrease_rate, GemSum(gem_amount)))
        extra_damage ==
            IF event # <<>>
            THEN FracMul(FracMul(base_damage, Frac(zone_buff_rate, RATE_UNIT)),
                         amount_modifier(decrease_rate, gem_amount[event[1]]))
            ELSE Frac(0, 1)
    IN IF raw_damage.d = 0 \/ extra_damage.d = 0 THEN Frac(0, 0)
       ELSE FracAdd(raw_damage, extra_damage)

\* eval_clear_state_damage up to its call of set_intermediate_display_value:
\* the base damage of one attacker against the defender, cut by the
\* assist_nerf_modifier for the attackers after the first
EvalDamageBase(coef, decrease_rate, zone_buff_rate, event, atk, def, i, assist_nerf_modifier) ==
    /\ ~calc.started
    /\ calc' = [started |-> TRUE, rate |-> decrease_rate, zone_buff_rate |-> zone_buff_rate,
                event |-> event,
                base_damage |->
                    IF i > 0
                    THEN FracMul(base_damage_formula(coef, atk, def),
                                 Frac(assist_nerf_modifier, RATE_UNIT))
                    ELSE base_damage_formula(coef, atk, def),
                gem_amount |-> [c \in 0..(BOARD_NUM_COLORS - 1) |-> 0],
                shown |-> <<>>]
    /\ UNCHANGED <<bvars, room, replay, draws, dapp>>

\* one round of the loop of set_intermediate_display_value: the ComboState
\* c_state of a ClearState is added to gem_amount and the damage of the beads
\* counted so far is put on display (eval_display_damage rounds it)
DisplayValue(c_state) ==
    /\ calc.started
    /\ GemSum(calc.gem_amount) + c_state.amount <= MaxGems
    /\ calc' = [calc EXCEPT
                  !.gem_amount[c_state.color] = @ + c_state.amount,
                  !.shown = Append(@,
                      RoundAsU32(total_gems_amount_damage(
                          calc.rate, calc.zone_buff_rate, calc.event, calc.base_damage,
                          [calc.gem_amount EXCEPT ![c_state.color] = @ + c_state.amount])))]
    /\ UNCHANGED <<bvars, room, replay, draws, dapp>>

NextDamage ==
    \/ \E coef \in Coefs, decrease_rate \in DecreaseRates, zone_buff_rate \in ZoneBuffRates,
          event \in {<<>>} \cup {<<c>> : c \in 0..(BOARD_NUM_COLORS - 1)},
          atk \in 0..MaxAtk, def \in 0..MaxAtk, i \in 0..1,
          assist_nerf_modifier \in NerfModifiers :
          EvalDamageBase(coef, decrease_rate, zone_buff_rate, event, atk, def, i,
                         assist_nerf_modifier)
    \/ \E color \in 0..(BOARD_NUM_COLORS - 1), amount \in 1..MaxGems :
          DisplayValue(ComboState(color, amount))

SpecDamage == Init /\ [][NextDamage]_vars


\* ------------------------------------------------------- the score record
Range(f) == {f[k] : k \in DOMAIN f}
SetMax(S) == CHOOSE x \in S : \A y \in S : y <= x

\* the BoardStates of the GameStates of g whose mover is mover_idx
BoardStatesOf(g, mover_idx) ==
    UNION {Range(g.states[i].board_states) :
              i \in {j \in DOMAIN g.states : g.states[j].mover = mover_idx}}

\* Room::cal_score_result, its highest_combo and rounds: current_combo is
\* combo_states.len() for a ClearState and 0 for the other BoardStates
cal_score_result(g, mover_idx) ==
    [rounds |-> (g.turn + 1) \div 2,
     highest_combo |->
        SetMax({0} \cup {IF b.kind = "ClearState" THEN Len(b.combo_states) ELSE 0 :
                            b \in BoardStatesOf(g, mover_idx)})]

\* ------------------------------------------------------------------ claims
\* C3: simulate returns IllegalMove for every in-bounds swap after which the
\* board has no horizontal or vertical run of three same-colour cells, and a
\* simulate that returns Ok returns at least one BoardState.
C3_NoMatchIsIllegalMove ==
    last.op = "simulate" =>
        /\ (InBounds(last.pre, last.mv) /\ ~SwapMatches(last.pre, last.mv)
               => last.result = "IllegalMove")
        /\ (last.result = "Ok" => Len(last.states) > 0)

\* a simulate of an in-bounds swap that makes no run, refused
C3_Witness ==
    /\ last.op = "simulate"
    /\ InBounds(last.pre, last.mv)
    /\ ~SwapMatches(last.pre, last.mv)
    /\ last.result = "IllegalMove"

\* C5: the board Board::new returns has no horizontal or vertical run of three
\* or more same-colour cells in the playable area, and eval_clear_result on it
\* finds nothing.
C5_NewBoardHasNoRun ==
    last.op = "new" /\ last.result = "Ok" =>
        ~HasRun(board) /\ ~eval_clear_result(board, FALSE).some

\* C6: the board Board::new returns has at least one legal swap: some in-bounds
\* exchange of two adjacent cells after which the board has a run.
C6_NewBoardHasLegalSwap ==
    last.op = "new" /\ last.result = "Ok" => HasLegalSwap(board)

\* Board::new has returned a board, and a swap on it makes a run
C6_Witness ==
    /\ last.op = "new" /\ last.result = "Ok"
    /\ board # NoBoard
    /\ HasLegalSwap(board)

\* C7: when simulate returns Ok the board it leaves has no run of three or more
\* same-colour cells, and the last BoardState returned carries that board.
C7_SettledAfterSimulate ==
    last.op = "simulate" /\ last.result = "Ok" =>
        /\ ~HasRun(board)
        /\ last.states[Len(last.states)].kind \in {"FillState", "RerollState"}
        /\ last.states[Len(last.states)].board.board = board.board

\* a simulate that returned Ok after a cascade of at least two rounds
C7_Witness ==
    /\ last.op = "simulate" /\ last.result = "Ok"
    /\ Cardinality({i \in 1..Len(last.states) : last.states[i].kind = "ClearState"}) >= 2
    /\ ~HasRun(board)

\* C8: when simulate returns Ok the board it leaves has at least one legal swap.
C8_LegalSwapAfterSimulate ==
    last.op = "simulate" /\ last.result = "Ok" => HasLegalSwap(board)

\* a simulate that returned Ok and left a board on which a swap makes a run
C8_Witness ==
    /\ last.op = "simulate" /\ last.result = "Ok"
    /\ board # last.pre
    /\ HasLegalSwap(board)

\* a board on which every playable cell has at most one colour
Exclusive(b) ==
    \A x \in 0..(b.width - 1), y \in 0..(b.height - 1) :
        Cardinality(ColorsAt(b, x, y)) <= 1

\* C9: in the board the caller holds, and in every board carried by a returned
\* BoardState, each playable cell is set in at most one colour channel.
C9_OneColourPerCell ==
    /\ board # NoBoard => Exclusive(board)
    /\ \A i \in 1..Len(last.states) :
          last.states[i].board # NoBoard => Exclusive(last.states[i].board)

\* a colour conversion that changed the board
C9_Witness ==
    /\ last.op = "turn_tiles" /\ last.result = "Ok"
    /\ board # last.pre
    /\ Exclusive(board)

\* C4: on a board of any width built by Board::new, simulate of a swap from a
\* cell on the edge in the outward direction returns IllegalMove.
C4_OutwardSwapIsIllegalMove ==
    last.op = "simulate" /\ Outward(last.pre, last.mv) => last.result = "IllegalMove"

\* C10: in the board the caller holds no colour channel has a bit outside the
\* playable columns in any row: the wall bits 0 and width + 1 are 0.
C10_WallBitsStayZero ==
    board # NoBoard =>
        \A c \in 0..(board.num_colors - 1), row \in 0..(2 * board.height - 1) :
            board.board[c][row] \subseteq MASK_OFFSET..board.width

\* C1: two runs of a battle that are given the same caller seeds and the same
\* actions produce the same sequence of GameStates.
C1_SameSeedsSameStates ==
    "clock" \notin draws => room.states = replay.states

\* C2: every generator drawn from while the first board is built and while an
\* action is resolved was seeded with a value the caller supplied.
C2_DrawsOnlyFromCallerSeeds ==
    draws \subseteq {"caller"}

\* the kinds of the BoardStates of a returned sequence, in order
Kinds(states) == [i \in 1..Len(states) |-> states[i].kind]

\* C11: in the BoardState sequence a board call returns, every ClearState is
\* immediately followed by a FillState, a RerollState comes only directly
\* after a FillState or another RerollState, and the sequence simulate
\* returns begins with a ClearState.
C11_ClearFillRerollOrder ==
    LET k == Kinds(last.states)
    IN /\ \A i \in 1..Len(k) :
             k[i] = "ClearState" => i < Len(k) /\ k[i + 1] = "FillState"
       /\ \A i \in 1..Len(k) :
             k[i] = "RerollState" => i > 1 /\ k[i - 1] \in {"FillState", "RerollState"}
       /\ (last.op = "simulate" /\ last.result = "Ok" => k[1] = "ClearState")

\* a simulate whose cascade cleared twice and rerolled
C11_Witness ==
    /\ last.op = "simulate" /\ last.result = "Ok"
    /\ \E i \in 1..Len(last.states) : last.states[i].kind = "RerollState"
    /\ Cardinality({i \in 1..Len(last.states) : last.states[i].kind = "ClearState"}) >= 2

\* the playable cells of colour c that the ClearState st removes from board b
ClearedCells(b, st, c) ==
    {p \in (0..(b.width - 1)) \X (0..(b.height - 1)) :
        p[1] \in st.clear_mask[p[2]] /\ c \in ColorsAt(b, p[1], p[2])}

\* two cells that share a side
Adjacent(p, q) ==
    \/ p[1] = q[1] /\ (p[2] = q[2] + 1 \/ q[2] = p[2] + 1)
    \/ p[2] = q[2] /\ (p[1] = q[1] + 1 \/ q[1] = p[1] + 1)

RECURSIVE Group(_, _)
\* the cells of the set cells joined to the set g through shared sides
Group(cells, g) ==
    LET more == g \cup {q \in cells : \E p \in g : Adjacent(p, q)}
    IN IF more = g THEN g ELSE Group(cells, more)

\* the maximal groups of cells connected through shared sides
Groups(cells) == {Group(cells, {p}) : p \in cells}

\* the combo states of st are the groups of cleared cells of each colour on b:
\* as many entries of colour c and amount n as there are groups of n cells
Clustered(b, st) ==
    /\ \A c \in 0..(b.num_colors - 1), n \in 0..(b.width * b.height) :
          Cardinality({k \in 1..Len(st.combo_states) :
                         st.combo_states[k] = ComboState(c, n)})
          = Cardinality({g \in Groups(ClearedCells(b, st, c)) : Cardinality(g) = n})
    /\ \A k \in 1..Len(st.combo_states) :
          /\ st.combo_states[k].color \in 0..(b.num_colors - 1)
          /\ st.combo_states[k].amount \in 1..(b.width * b.height)

\* the board the i-th state of the last call, a ClearState, clears cells from
ClearedFrom(i) ==
    IF i > 1 THEN last.states[i - 1].board
    ELSE IF last.op = "simulate" THEN do_bead_swap(last.pre, last.mv).board
    ELSE last.pre

\* the clears found by eval_clear_result carry one ComboState per group
MatchClearsAreClustered ==
    \A i \in 1..Len(last.states) :
        /\ last.states[i].kind = "ClearState"
        /\ (i > 1 \/ last.op = "simulate")
        => Clustered(ClearedFrom(i), last.states[i])

\* a match clear with two groups of one colour
MatchClearsWitness ==
    \E i \in 1..Len(last.states) :
        /\ last.states[i].kind = "ClearState"
        /\ (i > 1 \/ last.op = "simulate")
        /\ \E c \in Colors :
              Cardinality(Groups(ClearedCells(ClearedFrom(i), last.states[i], c))) >= 2

\* the same for eval_clear_result called on its own
StepClearsAreClustered ==
    last.op = "eval_clear_result" /\ last.result = "Some"
    => Clustered(board, last.states[1])

\* a match clear with two groups of one colour that touch only diagonally
DiagonalGroupsWitness ==
    /\ last.op = "eval_clear_result" /\ last.result = "Some"
    /\ \E c \in 0..(board.num_colors - 1) :
          \E g1, g2 \in Groups(ClearedCells(board, last.states[1], c)) :
             /\ g1 # g2
             /\ \E p \in g1, q \in g2 :
                   (p[1] - q[1]) \in {-1, 1} /\ (p[2] - q[2]) \in {-1, 1}

\* C12: every ClearState of a returned sequence carries exactly one ComboState
\* per maximal group of side-connected cleared cells of one colour, with the
\* group's size as amount; groups touching only diagonally are separate.
C12_OneComboPerGroup ==
    \A i \in 1..Len(last.states) :
        last.states[i].kind = "ClearState"
        => Clustered(ClearedFrom(i), last.states[i])

\* the cell (x, y) of b is in a horizontal or vertical run of three cells of
\* one colour
InRun(b, x, y) ==
    \E c \in ColorsAt(b, x, y) :
        \/ \E x0 \in {x - 2, x - 1, x} :
              /\ x0 >= 0 /\ x0 + 2 <= b.width - 1
              /\ \A d \in 0..2 : c \in ColorsAt(b, x0 + d, y)
        \/ \E y0 \in {y - 2, y - 1, y} :
              /\ y0 >= 0 /\ y0 + 2 <= b.height - 1
              /\ \A d \in 0..2 : c \in ColorsAt(b, x, y0 + d)

Occupied(b, x, y) == ColorsAt(b, x, y) # {}

RECURSIVE ColumnFrom(_, _, _)
\* the colour sets of the beads of column x from row y up, bottom to top
ColumnFrom(b, x, y) ==
    IF y >= 2 * b.height THEN <<>>
    ELSE (IF Occupied(b, x, y) THEN <<ColorsAt(b, x, y)>> ELSE <<>>)
         \o ColumnFrom(b, x, y + 1)

\* C14: after shift_empty no bead of a column lies above an empty cell, over
\* all 2 * height rows, and the colours of the column's beads from bottom to
\* top are the ones before the call: no bead is lost, duplicated, recoloured
\* or moved to another column.
C14_GravityCompactsColumns ==
    last.op = "shift_empty" =>
        \A x \in 0..(board.width - 1) :
            /\ \A y \in 1..(2 * board.height - 1) :
                  Occupied(board, x, y) => Occupied(board, x, y - 1)
            /\ ColumnFrom(board, x, 0) = ColumnFrom(last.pre, x, 0)
            /\ \A c \in 0..(board.num_colors - 1), y \in 0..(2 * board.height - 1) :
                  board.board[c][y] \subseteq MASK_OFFSET..board.width

\* shift_empty on a column with a hole of two cells under a bead and another
\* hole higher up
C14_Witness ==
    /\ last.op = "shift_empty"
    /\ board # last.pre
    /\ \E x \in 0..(board.width - 1), y \in 0..(board.height - 3) :
          /\ ~Occupied(last.pre, x, y) /\ ~Occupied(last.pre, x, y + 1)
          /\ Occupied(last.pre, x, y + 2)
          /\ \E y2 \in (y + 3)..(board.height - 1) : ~Occupied(last.pre, x, y2)

\* element_explosion and line_eleminate leave a board without a run
ClearingSkillsSettle ==
    last.op \in {"element_explosion", "line_eleminate"} /\ last.result = "Ok"
    => ~HasRun(board)

\* C15: whenever turn_tiles, element_explosion or line_eleminate returns Ok,
\* the board it leaves has no run of three or more cells of one colour.
C15_SettledAfterSpecialClear ==
    last.op \in {"turn_tiles", "element_explosion", "line_eleminate"}
    /\ last.result = "Ok"
    => ~HasRun(board)

\* C16: turn_tiles(from, to) that returns Ok has moved every playable bead of
\* colour from into colour to and left every other colour channel and all
\* reserved rows as they were; on a board with no playable bead of colour
\* from it fails with SkillNoGemToTrigger and leaves the board as it was.
C16_TurnTilesFrame ==
    last.op = "turn_tiles" =>
        LET from == last.mv.from_elem
            to == last.mv.to_elem
            none == \A x \in 0..(board.width - 1), y \in 0..(board.height - 1) :
                       from \notin ColorsAt(last.pre, x, y)
        IN /\ none <=> last.result = "SkillNoGemToTrigger"
           /\ none => board = last.pre
           /\ ~none =>
                /\ last.result = "Ok"
                /\ \A x \in 0..(board.width - 1), y \in 0..(board.height - 1) :
                      ColorsAt(board, x, y) =
                         IF from \in ColorsAt(last.pre, x, y)
                         THEN (ColorsAt(last.pre, x, y) \ {from}) \cup {to}
                         ELSE ColorsAt(last.pre, x, y)
                /\ \A c \in 0..(board.num_colors - 1) :
                      /\ c \notin {from, to} => board.board[c] = last.pre.board[c]
                      /\ \A y \in board.height..(2 * board.height - 1) :
                            board.board[c][y] = last.pre.board[c][y]
                /\ board.remove_bead = last.pre.remove_bead

\* a conversion between two colours on a board that has beads of the source
\* colour in the playable and in the reserved rows
C16_Witness ==
    /\ last.op = "turn_tiles" /\ last.result = "Ok"
    /\ last.mv.from_elem # last.mv.to_elem
    /\ board # last.pre
    /\ \E y \in board.height..(2 * board.height - 1) :
          board.board[last.mv.from_elem][y] # {}

RECURSIVE ClearedUpTo(_, _)
\* the number of cells of colour c removed by the ClearStates among the first
\* i states of the last call
ClearedUpTo(c, i) ==
    IF i = 0 THEN 0
    ELSE ClearedUpTo(c, i - 1)
         + (IF last.states[i].kind = "ClearState"
            THEN Cardinality(ClearedCells(ClearedFrom(i), last.states[i], c))
            ELSE 0)

\* C17: after a simulate that returned Ok, the removed-bead counters of the
\* board in the last BoardState are, for each colour, the number of cells of
\* that colour cleared during this call; nothing counted before the call is
\* in them.
C17_RemovedBeadsOfThisCall ==
    last.op = "simulate" /\ last.result = "Ok" =>
        \A c \in 0..(board.num_colors - 1) :
            last.states[Len(last.states)].board.remove_bead[c]
            = ClearedUpTo(c, Len(last.states))

\* a simulate with two clears on a board whose counters were not zero
C17_Witness ==
    /\ last.op = "simulate" /\ last.result = "Ok"
    /\ \E c \in 0..(board.num_colors - 1) : last.pre.remove_bead[c] > 0
    /\ Cardinality({i \in 1..Len(last.states) : last.states[i].kind = "ClearState"}) >= 2
    /\ \E c \in 0..(board.num_colors - 1) : ClearedUpTo(c, Len(last.states)) >= 4


\* the request of last was made for the gamer mover: the parties of its side
\* and of the other side in the last state before the request, and in the
\* state the request appended
MoverOfLast == last.pre.current_active_player_idx
AlliesBefore == last.pre.states[Len(last.pre.states)].gamer[MoverOfLast + 1]
RivalBefore == last.pre.states[Len(last.pre.states)].gamer[2 - MoverOfLast]
AlliesAfter == room.states[Len(last.pre.states) + 1].gamer[MoverOfLast + 1]
RivalAfter == room.states[Len(last.pre.states) + 1].gamer[2 - MoverOfLast]

\* C18: a move or a skill activation sent under the id of a player who is not
\* the current active mover is rejected with IllegalMove; no GameState is
\* appended, and the turn counter and the active mover stay as they were.
C18_WrongMoverIsRejected ==
    (last.op \in {"move_action", "skill_action"} /\ last.mv.player # MoverOfLast)
    => /\ last.result = "IllegalMove"
       /\ room.states = last.pre.states
       /\ room.turn = last.pre.turn
       /\ room.current_active_player_idx = last.pre.current_active_player_idx

\* a move with a swap the board accepts, an attacker of the sender's own party
\* that is alive and a defender of the other party that is alive, sent by
\* gamer 0 of a PvP room while gamer 1 is the active mover: it is refused
C18_Witness ==
    /\ last.op = "move_action"
    /\ last.pre.game_mode = "PvP"
    /\ MoverOfLast = 1
    /\ last.mv.player = 0
    /\ SwapMatches(last.pre.states[Len(last.pre.states)].board, last.mv.action)
    /\ HasCharacter(RivalBefore, last.mv.attacker_id)
    /\ is_alive(get_character_logic_data(RivalBefore, last.mv.attacker_id))
    /\ HasCharacter(AlliesBefore, last.mv.defender_id)
    /\ is_alive(get_character_logic_data(AlliesBefore, last.mv.defender_id))
    /\ last.result = "IllegalMove"
    /\ room.states = last.pre.states

\* the request of last names, as its defender, a character of the other side
\* whose current_hp is 0
MoveAtTheDead ==
    /\ last.op = "move_action"
    /\ HasCharacter(RivalBefore, last.mv.defender_id)
    /\ ~is_alive(get_character_logic_data(RivalBefore, last.mv.defender_id))

DamageSkillAtTheDead ==
    /\ last.op = "skill_action"
    /\ get_skill_info(last.mv.caster_id) = "Damage"
    /\ last.mv.rival_target_id # None
    /\ HasCharacter(RivalBefore, last.mv.rival_target_id[1])
    /\ ~is_alive(get_character_logic_data(RivalBefore, last.mv.rival_target_id[1]))

\* the part of C19 that perform_skill enforces: the skill Damage aimed at a
\* character with current_hp 0 is refused and appends no GameState
DamageSkillNeedsLiveTarget ==
    DamageSkillAtTheDead => (last.result # "Ok" /\ room.states = last.pre.states)

DamageSkillAtTheDeadWitness ==
    /\ DamageSkillAtTheDead
    /\ last.mv.player = MoverOfLast
    /\ HasCharacter(AlliesBefore, last.mv.caster_id)
    /\ is_alive(get_character_logic_data(AlliesBefore, last.mv.caster_id))
    /\ last.result = "IllegalMove"

\* every state the enemy's turn appends names a defender that was alive in
\* the state before it
NpcAttackNeedsLiveTarget ==
    \A i \in 2..Len(room.states) :
        (room.game_mode = "PvE" /\ room.states[i].mover = 1)
        => is_alive(get_character_logic_data(room.states[i - 1].gamer[1],
                                             room.states[i].defender_id[1]))

\* C19: a move, or a damaging skill, whose designated defender has current HP
\* 0 is rejected with an error and appends no GameState.
C19_DeadDefenderIsRejected ==
    (MoveAtTheDead \/ DamageSkillAtTheDead)
    => (last.result # "Ok" /\ room.states = last.pre.states)

\* the characters of every GameState of the room
CharactersOf(g) ==
    UNION {{g.states[i].gamer[p][k] : k \in DOMAIN g.states[i].gamer[p]} :
           i \in DOMAIN g.states, p \in 1..2}

\* what the defender of the move of last received from the main attacker
HitOfLast == room.states[Len(last.pre.states) + 1].damage_result[1].defender_received_damage

\* a move that was accepted with hits worth more than the defender had left
Overkill ==
    /\ last.op = "move_action"
    /\ last.result = "Ok"
    /\ HitOfLast > get_character_logic_data(RivalBefore, last.mv.defender_id).current_hp

\* a move that was accepted against a defender with an absorbing shield whose
\* first hit gives back at least what the defender lacks
Overheal ==
    /\ last.op = "move_action"
    /\ last.result = "Ok"
    /\ HitOfLast < 0
    /\ get_character_logic_data(RivalBefore, last.mv.defender_id).current_hp - HitOfLast
       >= get_character_logic_data(RivalBefore, last.mv.defender_id).max_hp

\* a Recovery that was accepted
Recovered ==
    /\ last.op = "skill_action"
    /\ last.result = "Ok"
    /\ get_skill_info(last.mv.caster_id) = "Recovery"

\* C20: in every GameState, 0 <= current_hp <= max_hp for every character;
\* hits worth more than the defender's current_hp leave it at exactly 0, and
\* healing beyond max_hp (by an absorbing shield or by the skill Recovery)
\* leaves current_hp at exactly max_hp.
C20_HpWithinBounds ==
    /\ \A c \in CharactersOf(room) : 0 <= c.current_hp /\ c.current_hp <= c.max_hp
    /\ Overkill
       => get_character_logic_data(RivalAfter, last.mv.defender_id).current_hp = 0
    /\ Overheal
       => get_character_logic_data(RivalAfter, last.mv.defender_id).current_hp
              = get_character_logic_data(RivalAfter, last.mv.defender_id).max_hp
    /\ Recovered
       => \A k \in DOMAIN AlliesBefore :
              (is_alive(AlliesBefore[k])
                 /\ AlliesBefore[k].current_hp + last.mv.value >= AlliesBefore[k].max_hp)
              => AlliesAfter[k].current_hp = AlliesAfter[k].max_hp

\* a Recovery cast on a party at full health, then a move whose hits are worth
\* more than the defender has left
C20_Witness ==
    /\ Overkill
    /\ get_character_logic_data(RivalBefore, last.mv.defender_id).current_hp > 0
    /\ Len(last.pre.states) = 2
    /\ last.pre.states[2].board_states = <<>>
    /\ last.pre.states[2].mover = 0
    /\ get_skill_info(last.pre.states[2].attacker_id[1]) = "Recovery"
    /\ \A p \in 1..2 : \A k \in DOMAIN last.pre.states[2].gamer[p] :
          last.pre.states[2].gamer[p][k].current_hp
              = last.pre.states[1].gamer[p][k].current_hp

\* a move against a living defender whose ShieldAbsorb turns the hits into
\* healing beyond max_hp
OverhealWitness ==
    /\ Overheal
    /\ get_character_logic_data(RivalBefore, last.mv.defender_id).current_hp > 0
    /\ room.states[Len(last.pre.states) + 1].damage_result[1].shield_blocking

\* the ids of the characters of a party whose current_hp is 0
DeadIds(characters) ==
    {characters[k].id : k \in {j \in DOMAIN characters : characters[j].current_hp = 0}}


\* C21: a character with current_hp 0 is never among the ids
\* get_all_alive_character_ids gives for its party, and no DamageResult of a
\* state names as its attacker a character that had current_hp 0 in the state
\* before.
C21_TheDeadDoNotAttack ==
    /\ room # NoGame
       => \A i \in DOMAIN room.states, p \in 1..2 :
              Range(get_all_alive_character_ids(room.states[i].gamer[p]))
                  \cap DeadIds(room.states[i].gamer[p]) = {}
    /\ room # NoGame
       => \A i \in 2..Len(room.states) :
              \A k \in DOMAIN room.states[i].damage_result :
                  room.states[i].damage_result[k].attacker
                      \notin DeadIds(room.states[i - 1].gamer[room.states[i].mover + 1])

\* a move that was accepted while a character of the mover's party had
\* current_hp 0: every other character of the party attacks, the dead one
\* does not
C21_Witness ==
    /\ last.op = "move_action"
    /\ last.result = "Ok"
    /\ DeadIds(AlliesBefore) # {}
    /\ {room.states[Len(last.pre.states) + 1].damage_result[k].attacker :
           k \in DOMAIN room.states[Len(last.pre.states) + 1].damage_result}
       = Range(get_all_alive_character_ids(AlliesBefore))

\* C22: in every GameState, every character whose current_hp is 0 has skill
\* charge 0: the charge is cleared when the character dies, and a dead
\* character gains none from being hit, from removed beads or from the charge
\* of each turn.
C22_TheDeadHoldNoCharge ==
    room # NoGame => \A c \in CharactersOf(room) : c.current_hp = 0 => c.cool_down = 0

\* a move that was accepted, made by a party one of whose characters died
\* holding charge: the beads the move removed and the charge of the turn leave
\* the dead character at charge 0
C22_Witness ==
    /\ last.op = "move_action"
    /\ last.result = "Ok"
    /\ \E k \in DOMAIN AlliesBefore :
          /\ AlliesBefore[k].current_hp = 0
          /\ last.pre.states[1].gamer[MoverOfLast + 1][k].cool_down > 0
          /\ AlliesAfter[k].cool_down = 0
          /\ eval_skill_charge_by_clear(
                 AlliesBefore[k],
                 LET bs == room.states[Len(last.pre.states) + 1].board_states
                 IN bs[Len(bs)].board.remove_bead) + recovery_each_turn > 0

\* C23: in every GameState, every character's skill charge is at most its
\* maximum skill charge.
C23_ChargeWithinMax ==
    room # NoGame => \A c \in CharactersOf(room) : c.cool_down <= get_max_skill_charge(c)

\* a move that was accepted, made by a party one of whose living characters
\* was within the charge of a turn of its maximum and saw beads of its own
\* colour removed: it is left at exactly the maximum
C23_Witness ==
    /\ last.op = "move_action"
    /\ last.result = "Ok"
    /\ \E k \in DOMAIN AlliesBefore :
          /\ is_alive(AlliesBefore[k])
          /\ AlliesBefore[k].cool_down + recovery_each_turn
                 >= get_max_skill_charge(AlliesBefore[k])
          /\ eval_skill_charge_by_clear(
                 AlliesBefore[k],
                 LET bs == room.states[Len(last.pre.states) + 1].board_states
                 IN bs[Len(bs)].board.remove_bead) > 0
          /\ AlliesAfter[k].cool_down = get_max_skill_charge(AlliesAfter[k])

\* the skill activation of last names a caster of the active mover's party
\* whose charge is below the energy a cast takes
CastBelowEnergy ==
    /\ last.op = "skill_action"
    /\ HasCharacter(AlliesBefore, last.mv.caster_id)
    /\ get_character_logic_data(AlliesBefore, last.mv.caster_id).cool_down
           < get_energy_per_cast(get_character_logic_data(AlliesBefore, last.mv.caster_id))

BuffsOf(g, i, p) ==
    UNION {Range(g.states[i].gamer[p][k].buff_states) : k \in DOMAIN g.states[i].gamer[p]}

\* the part of C25 that every compose function enforces: the rival of the
\* mover of a state holds no buff that ended before the state's turn or has
\* nothing left to consume
RivalKeepsNoExpiredBuff ==
    room # NoGame
    => \A i \in 2..Len(room.states) :
           \A buff \in BuffsOf(room, i, 2 - room.states[i].mover) :
               Retained(buff, room.states[i].turn)

\* C25: in the GameState produced by a resolved action, no character of
\* either side holds a buff whose end_turn is earlier than the state's turn or
\* whose consumable_amount is 0.
C25_NoExpiredBuffIsKept ==
    room # NoGame
    => \A i \in 2..Len(room.states), p \in 1..2 :
           \A buff \in BuffsOf(room, i, p) : Retained(buff, room.states[i].turn)

\* the request of last is a request of a two-player battle that was accepted
ResolvedPvP(op) ==
    /\ last.op = op
    /\ last.result = "Ok"
    /\ last.pre.game_mode = "PvP"

\* the request of last appended one GameState, advanced the turn by one and
\* made the other gamer the active mover
OneStateNextTurn ==
    /\ Len(room.states) = Len(last.pre.states) + 1
    /\ room.turn = last.pre.turn + 1
    /\ room.current_active_player_idx = 1 - last.pre.current_active_player_idx

\* the part of C26 that update_game enforces
MoveAdvancesTurn == ResolvedPvP("move_action") => OneStateNextTurn

\* C26: in a two-player battle, every resolved move or skill activation
\* appends exactly one GameState, advances the turn counter by one and flips
\* the active mover.
C26_ActionAdvancesTurn ==
    (ResolvedPvP("move_action") \/ ResolvedPvP("skill_action")) => OneStateNextTurn

\* the part of C27 that holds for a battle of any length: but for the state
\* the room starts with, gamer 0 is the mover of the states of odd turn and
\* gamer 1 of those of even turn
MoverFollowsParity ==
    room # NoGame
    => \A i \in 2..Len(room.states) : room.states[i].mover = (room.states[i].turn + 1) % 2

\* C27: along the history of a battle of any length the turn numbers never
\* decrease, and the mover of a state alternates with the parity of its turn.
C27_TurnsNeverDecrease ==
    room # NoGame
    => /\ \A i \in 2..Len(room.states) : room.states[i - 1].turn <= room.states[i].turn
       /\ \A i \in 2..Len(room.states) :
              room.states[i].mover = (room.states[i].turn + 1) % 2

\* the sum of the current_hp of the characters of a party
RECURSIVE TotalHp(_)
TotalHp(characters) ==
    IF characters = <<>> THEN 0
    ELSE characters[1].current_hp + TotalHp(Tail(characters))

\* the GameStates the request of last appended
AppendedByLast == (Len(last.pre.states) + 1)..Len(room.states)

\* the request of last is a move or a skill activation that was resolved
ResolvedAction ==
    /\ last.op \in {"move_action", "skill_action"}
    /\ last.result = "Ok"

\* C28: when a resolved action produces a GameState in which the current_hp of
\* one side's characters sums to 0, the game result names the other side as
\* winner as soon as the action is resolved; an action all of whose states
\* leave both sides with positive total HP leaves the game result as it was.
C28_WinnerWhenASideIsDown ==
    ResolvedAction
    => /\ \A i \in AppendedByLast, p \in 0..1 :
              TotalHp(room.states[i].gamer[p + 1]) = 0
              => /\ room.game_over_result # None
                 /\ TotalHp(room.states[Len(room.states)].gamer[p + 1]) = 0
                    => room.game_over_result = Some(1 - p)
       /\ (\A i \in AppendedByLast, p \in 0..1 : TotalHp(room.states[i].gamer[p + 1]) > 0)
          => room.game_over_result = last.pre.game_over_result

\* a move of a PvE room whose hits leave the enemy standing, answered by an
\* enemy attack that takes the last HP of the player's party: the enemy wins
C28_Witness ==
    /\ ResolvedAction
    /\ last.pre.game_over_result = None
    /\ Len(room.states) >= Len(last.pre.states) + 2
    /\ TotalHp(room.states[Len(last.pre.states) + 1].gamer[1]) > 0
    /\ TotalHp(room.states[Len(room.states)].gamer[1]) = 0
    /\ room.game_over_result = Some(1)

\* C29: no request makes the engine panic: every failure comes back to the
\* caller as an error.
C29_NoRequestPanics == last.result # "Panic"

\* the out-of-bounds half of C33: a swap do_bead_swap rejects leaves the board
\* it was asked on as it was
RejectedSwapKeepsBoard ==
    (last.op = "simulate" /\ last.result = "IllegalMove"
     /\ ~do_bead_swap(last.pre, last.mv).ok)
    => board = last.pre

\* C33: a simulate that returns IllegalMove, for a swap that leaves the board
\* or for a swap that matches nothing, leaves the board it was called on
\* exactly as it was before the call.
C33_FailedSimulateKeepsBoard ==
    (last.op = "simulate" /\ last.result = "IllegalMove") => board = last.pre

\* the call of last is a skill on the board that returned Ok
SkillOnBoard(ops) == last.op \in ops /\ last.result = "Ok"

\* the part of C36 about turn_tiles: recolouring keeps a legal swap
TurnTilesKeepsLegalSwap ==
    (SkillOnBoard({"turn_tiles"}) /\ HasLegalSwap(last.pre)) => HasLegalSwap(board)

\* C36: whenever element_explosion, line_eleminate or turn_tiles returns Ok,
\* the board left in place has at least one swap that simulate would accept.
C36_SkillLeavesLegalSwap ==
    SkillOnBoard({"element_explosion", "line_eleminate", "turn_tiles"})
    => HasLegalSwap(board)

\* C31: for fixed attributes of attacker and defender and a fixed zone event,
\* the damage of a move never goes down as more cells of a colour are cleared:
\* along the ComboStates of one attack the damage of the beads counted so far
\* never decreases.
C31_DamageGrowsWithCells ==
    \A k \in 1..(Len(calc.shown) - 1) : calc.shown[k] <= calc.shown[k + 1]

\* an attack under a zone event whose damage grew with a second clear
C31_Witness ==
    /\ Len(calc.shown) >= 2
    /\ calc.event # <<>>
    /\ calc.shown[1] > 0
    /\ calc.shown[1] < calc.shown[Len(calc.shown)]

\* the largest amount of a ComboState among the clear events of the states
\* whose mover is mover_idx, 0 when there is none
LargestCluster(g, mover_idx) ==
    SetMax({0} \cup UNION {{c.amount : c \in Range(b.combo_states)} :
                              b \in {x \in BoardStatesOf(g, mover_idx) : x.kind = "ClearState"}})

\* C32: the highest_combo of a player's score record is the size of the
\* largest cluster (the largest ComboState amount) over all clear events of
\* that player's actions in the battle.
C32_HighestComboIsLargestCluster ==
    room.gamers = 2
    => \A mover_idx \in 0..1 :
           cal_score_result(room, mover_idx).highest_combo = LargestCluster(room, mover_idx)

\* the part of C34 that set_game_forfeit enforces: a quit request in a room
\* whose result is set leaves the result as it is
QuitKeepsWinner ==
    (last.op = "quit_game" /\ last.pre.game_over_result # None)
    => room.game_over_result = last.pre.game_over_result

\* C34: once the game result of a room names a winner, by defeat or by
\* forfeit, no later move, skill activation or quit request changes it.
C34_WinnerNeverChanges ==
    (last.op \in {"move_action", "skill_action", "quit_game"}
     /\ last.pre.game_over_result # None)
    => room.game_over_result = last.pre.game_over_result

\* the characters of the last state of g, both sides in one sequence
LastCharacters(g) == g.states[Len(g.states)].gamer[1] \o g.states[Len(g.states)].gamer[2]

\* the character of id in the last state of a two-gamer game g
CharacterOf(g, id) == get_character_logic_data(LastCharacters(g), id)

\* the part of C35 that recovery_hp enforces: the skill Recovery leaves the
\* dead characters of the caster's party at 0
RecoveryLeavesTheDead ==
    (last.op = "skill_action" /\ last.result = "Ok"
     /\ get_skill_info(last.mv.caster_id) = "Recovery")
    => \A id \in CharIds :
           CharacterOf(last.pre, id).current_hp = 0 => CharacterOf(room, id).current_hp = 0

\* C35: a character whose current HP has reached 0 stays at 0 for the rest of
\* the battle: no move, skill, shield effect or recovery ever raises a dead
\* character's HP.
C35_TheDeadStayDead ==
    (last.op \in {"move_action", "skill_action"} /\ last.pre.gamers = 2)
    => \A id \in CharIds :
           CharacterOf(last.pre, id).current_hp = 0 => CharacterOf(room, id).current_hp = 0

\* the input of last is a request of a game made in the name of user
GameRequestOfLast ==
    last.op \in {"create_private_room", "join_private_room", "quit_game", "move_action"}

\* the part of C37 that auth_msg_sender enforces: an input whose sender has no
\* wallet attached to it, or holds less than the stake, leaves the room and
\* its users as they were
UnknownSenderChangesNothing ==
    (GameRequestOfLast
     /\ ((\A m \in Addrs : last.pre.dapp.wallet_map[m] # Some(last.mv.msg_sender))
         \/ last.pre.dapp.balance_map[last.mv.msg_sender] \in {None, Some(0)}))
    => (room = last.pre.room /\ dapp.users = last.pre.dapp.users)

\* C37: a game operation (move, skill activation, quit/forfeit, cancel room,
\* game over) takes effect on behalf of player P only if the rollup input was
\* sent by P's own address: no sender can make a move for, or forfeit, another
\* player.
C37_OnlyTheSenderActs ==
    (last.op \in {"quit_game", "move_action"} /\ last.mv.msg_sender # last.mv.user)
    => room = last.pre.room

\* the balance of an address in the managers d, 0 when it has none
BalanceOf(d, address) ==
    IF d.balance_map[address] = None THEN 0 ELSE d.balance_map[address][1]

\* the part of C38 that transfer enforces: a transfer lowers no balance but
\* that of the from_address of the request
TransferDebitsOnlyFrom ==
    last.op = "transfer"
    => \A a \in Addrs :
           a # last.mv.from_address => BalanceOf(dapp, a) >= BalanceOf(last.pre.dapp, a)

\* C38: a TransferBalance request only ever debits the balance of the address
\* that sent the rollup input: no sender can reduce the balance of any other
\* address.
C38_TransferDebitsTheSender ==
    last.op = "transfer"
    => \A a \in Addrs :
           a # last.mv.msg_sender => BalanceOf(dapp, a) >= BalanceOf(last.pre.dapp, a)

RECURSIVE SumOfAmounts(_)
SumOfAmounts(outputs) ==
    IF outputs = <<>> THEN 0 ELSE outputs[1].amount + SumOfAmounts(Tail(outputs))

RECURSIVE SumOfBalances(_, _)
SumOfBalances(d, n) == IF n = 0 THEN 0 ELSE BalanceOf(d, n - 1) + SumOfBalances(d, n - 1)

\* the part of C39 without the vouchers: the internal balances never sum to
\* more than was deposited
BalancesWithinDeposits == SumOfBalances(dapp, NumAddrs) <= dapp.deposited

\* C39: at all times the total amount released through withdrawal vouchers
\* plus the sum of all internal balances does not exceed the total amount
\* deposited through the Ether portal.
C39_VouchersAndBalancesWithinDeposits ==
    SumOfAmounts(dapp.vouchers) + SumOfBalances(dapp, NumAddrs) <= dapp.deposited

\* the input of last is a transfer whose withdraw step failed
WithdrawFailed ==
    /\ last.op = "transfer"
    /\ last.states # <<>>
    /\ (BalanceOf(last.pre.dapp, last.mv.from_address) < last.mv.amount
        \/ last.pre.dapp.balance_map[last.mv.from_address] = None)

\* the part of C40 that holds: a transfer whose withdraw step failed leaves the
\* balances and the voucher records of the balance manager as they were
FailedWithdrawKeepsBalances ==
    WithdrawFailed
    => /\ dapp.balance_map = last.pre.dapp.balance_map
       /\ dapp.voucher_meta_map = last.pre.dapp.voucher_meta_map

\* C40: if the withdraw step of a TransferBalance request fails (insufficient
\* balance), the whole request is rejected and every voucher and notice
\* generated while handling it is discarded, leaving all balances unchanged.
C40_FailedWithdrawRejectsAll ==
    WithdrawFailed
    => /\ last.result = "reject"
       /\ dapp.vouchers = last.pre.dapp.vouchers
       /\ dapp.balance_map = last.pre.dapp.balance_map

====
